---------------------------- MODULE Spec2Model ----------------------------
(***************************************************************************)
(* CV-Tailor browser extension: job-description detection, form filling,   *)
(* message handlers, the two-pass resume pipeline of the side panel and    *)
(* the skill matcher.                                                      *)
(*                                                                         *)
(* Text is modelled run-length encoded: a text is a sequence of segments   *)
(* [k, n], n >= 1 characters of kind k:                                    *)
(*   "w"  word characters          "kw" a job keyword (responsibilities,   *)
(*   "s"  whitespace                    requirements, qualifications, ...) *)
(*   "t"  HTML tag markup          "x"  a <script>/<style> element         *)
(***************************************************************************)
EXTENDS Integers, Sequences, FiniteSets, TLC

VARIABLES
    \* ---- host page DOM, as the detection code reads it
    scripts,        \* script[type="application/ld+json"] blocks, document order
    metaTags,       \* [og, twitter, std]: content of the description meta tags
    selectorHits,   \* textContent of the first element of each matching selector
    paragraphs,     \* textContent of the p/div/section elements of the main region
    titleHits,      \* elements found by the job-title selectors, list order
    companyHits,    \* elements found by the company selectors, list order
    pageTitle,      \* document.title as the TITLE at COMPANY pattern sees it
    \* ---- host page form
    variant,        \* which content script is installed on the page
    elements,       \* the input/textarea elements, document order
    \* ---- content-script message handlers
    handlers,       \* handler -> [pc, msg, el, call, count, resp]
    fillLog,        \* every fillField invocation: [h, el, key, wrote, steps]
    schemaOut,      \* last result of extractSchemaOrgJobPosting, or NotRun
    \* ---- background service worker
    storage,        \* chrome.storage.sync content
    bgHandled,      \* [msg, resp] of the message the background handled last
    \* ---- side panel
    panel,          \* React state of SidePanel
    runs,           \* handleGenerate invocations: run -> record
    llmLog,         \* every request issued to the LLM provider, in order
    \* ---- skill matcher
    mInput,         \* [resume, jd] handed to calculateMatch
    mResult,        \* the MatchResult, or NotRun
    \* ---- LLM job extractor
    xResponse,      \* the response handed to parseLLMResponse
    xResult,        \* what parseLLMResponse returned, or NotRun
    xPage,          \* [text, maxChars]: document.body.innerText and the budget
    xContent,       \* what preparePageContentForLLM returned, or NotRun
    xPrompt,        \* the job-content section of the prompt built, or NotRun
    companyStorage, \* chrome.storage.local: the saved target companies
    targetCompanies,\* CompanyManager's targetCompanies state
    companyTasks,   \* the storage calls and click handlers in progress
    storageQueue,   \* the tasks whose storage.get or storage.set is under way, oldest first
    removedIds      \* ids a completed removal took out of storage

pageVars  == <<scripts, metaTags, selectorHits, paragraphs, titleHits, companyHits, pageTitle>>
formVars  == <<variant, elements>>
csVars    == <<handlers, fillLog, schemaOut>>
bgVars    == <<storage, bgHandled>>
panelVars == <<panel, runs, llmLog>>
matchVars == <<mInput, mResult>>
extractVars == <<xResponse, xResult, xPage, xContent, xPrompt>>
companyVars == <<companyStorage, targetCompanies, companyTasks, storageQueue, removedIds>>
vars == <<pageVars, formVars, csVars, bgVars, panelVars, matchVars, extractVars, companyVars>>

NotRun == [kind |-> "not_run"]

(***************************************************************************)
(* Generic helpers                                                         *)
(***************************************************************************)
Range(s) == {s[i] : i \in DOMAIN s}

SeqsUpTo(S, n) == UNION {[1..k -> S] : k \in 0..n}

Max2(a, b) == IF a >= b THEN a ELSE b
Min2(a, b) == IF a <= b THEN a ELSE b

RECURSIVE SumSeq(_)
SumSeq(s) == IF s = <<>> THEN 0 ELSE Head(s) + SumSeq(Tail(s))

(***************************************************************************)
(* Text                                                                    *)
(***************************************************************************)
Seg(k, n) == [k |-> k, n |-> n]

Length(text) == SumSeq([i \in DOMAIN text |-> text[i].n])

IsSpace(seg) == seg.k = "s"

RECURSIVE CollapseSpaces(_)
\* .replace(/\s+/g, " "): every maximal whitespace run becomes one blank
CollapseSpaces(text) ==
    IF text = <<>> THEN <<>>
    ELSE LET rest == CollapseSpaces(Tail(text))
         IN  IF IsSpace(Head(text))
             THEN IF rest # <<>> /\ IsSpace(Head(rest))
                  THEN rest
                  ELSE <<Seg("s", 1)>> \o rest
             ELSE <<Head(text)>> \o rest

RECURSIVE TrimStart(_)
TrimStart(text) ==
    IF text # <<>> /\ IsSpace(Head(text)) THEN TrimStart(Tail(text)) ELSE text

RECURSIVE TrimEnd(_)
TrimEnd(text) ==
    IF text # <<>> /\ IsSpace(text[Len(text)])
    THEN TrimEnd(SubSeq(text, 1, Len(text) - 1)) ELSE text

\* String.prototype.trim
Trim(text) == TrimEnd(TrimStart(text))

\* the second replace (/\n+/g) finds nothing: the first has left no newline
cleanText(text) == Trim(CollapseSpaces(text))

RECURSIVE TextContent(_)
\* div.innerHTML = html; script/style removed; div.textContent
TextContent(html) ==
    IF html = <<>> THEN <<>>
    ELSE IF Head(html).k \in {"t", "x"} THEN TextContent(Tail(html))
         ELSE <<Head(html)>> \o TextContent(Tail(html))

cleanHtml(html) == cleanText(TextContent(html))

\* text.toLowerCase().includes("responsibilities") || ... "experience"
HasKeyword(text) == \E i \in DOMAIN text : text[i].k = "kw"

(***************************************************************************)
(* JSON-LD documents.  A parsed value is an object (kind "obj": its @type  *)
(* in ty, its JobPosting fields in p, its @graph array in sub), an array   *)
(* (kind "arr": its items in sub) or a falsy value (kind "null").  A       *)
(* script block is a parsed value, or kind "invalid" (JSON.parse throws)   *)
(* or kind "empty" (no textContent).                                       *)
(*   ty: "JobPosting", "Other", "ListJP" (an array of types that includes  *)
(*       "JobPosting"), "ListOther" (one that does not), "None"            *)
(***************************************************************************)
NoPayload == [title |-> "", company |-> "", desc |-> <<>>]

Obj(ty, p, graph) == [kind |-> "obj", ty |-> ty, p |-> p, sub |-> graph]
Arr(items)        == [kind |-> "arr", ty |-> "None", p |-> NoPayload, sub |-> items]
JsonNull          == [kind |-> "null", ty |-> "None", p |-> NoPayload, sub |-> <<>>]
InvalidBlock      == [kind |-> "invalid", ty |-> "None", p |-> NoPayload, sub |-> <<>>]
EmptyBlock        == [kind |-> "empty", ty |-> "None", p |-> NoPayload, sub |-> <<>>]

NoNode == [kind |-> "none", ty |-> "None", p |-> NoPayload, sub |-> <<>>]

\* data["@type"] === "JobPosting" || (Array.isArray(data["@type"]) && ...includes)
IsJobPosting(data) == data.kind = "obj" /\ data.ty \in {"JobPosting", "ListJP"}

RECURSIVE findJobPosting_LastItem(_)
findJobPosting_LastItem(data) ==
    IF data.kind \notin {"obj", "arr"} THEN NoNode
    ELSE IF IsJobPosting(data) THEN data
    ELSE LET found == [i \in DOMAIN data.sub |-> findJobPosting_LastItem(data.sub[i])]
             hits  == {i \in DOMAIN found : found[i] # NoNode}
         IN  IF hits = {} THEN NoNode
             ELSE found[CHOOSE i \in hits : \A j \in hits : i >= j]

RECURSIVE findJobPosting(_)
\* if (!data) return null; own @type first; then the @graph items in order;
\* then, for an array, its items in order; the first hit is returned
findJobPosting(data) ==
    IF data.kind \notin {"obj", "arr"} THEN NoNode
    ELSE IF IsJobPosting(data) THEN data
    ELSE LET found == [i \in DOMAIN data.sub |-> findJobPosting(data.sub[i])]
             hits  == {i \in DOMAIN found : found[i] # NoNode}
         IN  IF hits = {} THEN NoNode
             ELSE found[CHOOSE i \in hits : \A j \in hits : i <= j]

\* schemaOrgDetector.ts parseJobPosting: title/company/description || ""
parseJobPosting(node) ==
    [kind |-> "job", title |-> node.p.title, company |-> node.p.company,
     description |-> node.p.desc]

\* the content script's inline record: description through cleanHtml
inlineJobPosting(node) ==
    [kind |-> "job", title |-> node.p.title, company |-> node.p.company,
     description |-> cleanHtml(node.p.desc)]

NullResult == [kind |-> "null", title |-> "", company |-> "", description |-> <<>>]

RECURSIVE ScanScripts(_, _, _)
\* for (const script of scripts) { if (!content) continue;
\*   try { parse; find; if (jobPosting) return build(jobPosting) } catch { continue } }
\* return null
ScanScripts(blocks, i, inline) ==
    IF i > Len(blocks) THEN NullResult
    ELSE IF blocks[i].kind \in {"empty", "invalid"} THEN ScanScripts(blocks, i + 1, inline)
    ELSE LET jobPosting == findJobPosting(blocks[i])
         IN  IF jobPosting # NoNode
             THEN IF inline THEN inlineJobPosting(jobPosting) ELSE parseJobPosting(jobPosting)
             ELSE ScanScripts(blocks, i + 1, inline)

extractSchemaOrgJobPosting(blocks) == ScanScripts(blocks, 1, FALSE)

detectFromSchemaOrg(blocks) == ScanScripts(blocks, 1, TRUE)

(***************************************************************************)
(* Multi-strategy detection (content script with the strategy chain)       *)
(***************************************************************************)
AcceptLen == 200    \* description.length > 200, textContent.length > 200
BlockLen  == 500    \* text.length > 500 in the large-text-block fallback

\* a || b on strings
OrStr(a, b) == IF a # "" THEN a ELSE b

\* OpenGraph, then Twitter card, then the standard description; a tag that
\* is absent and a tag with empty content both leave the field ""
detectFromMetaTags(meta) ==
    LET title1 == meta.ogTitle
        desc1  == meta.og
        title2 == IF title1 = "" THEN meta.twitterTitle ELSE title1
        desc2  == IF desc1 = <<>> THEN meta.twitter ELSE desc1
        desc3  == IF desc2 = <<>> THEN meta.std ELSE desc2
    IN  [title |-> title2, description |-> desc3]

RECURSIVE FirstLongHit(_, _)
\* for (const selector of selectors): first element with textContent.length > 200
FirstLongHit(hits, i) ==
    IF i > Len(hits) THEN 0
    ELSE IF hits[i] # <<>> /\ Length(hits[i]) > AcceptLen THEN i
    ELSE FirstLongHit(hits, i + 1)

RECURSIVE LongestBlock(_, _, _, _)
\* for (const el of allParagraphs): text.length > longestText.length &&
\* text.length > 500 (&& keyword, in the first loop) => longestText = text
LongestBlock(paras, i, longest, needKeyword) ==
    IF i > Len(paras) THEN longest
    ELSE LET text == paras[i]
             take == /\ Length(text) > Length(longest)
                     /\ Length(text) > BlockLen
                     /\ (needKeyword => HasKeyword(text))
         IN  LongestBlock(paras, i + 1, IF take THEN text ELSE longest, needKeyword)

detectFromSelectors(hits, paras) ==
    LET i == FirstLongHit(hits, 1)
        withKeyword == LongestBlock(paras, 1, <<>>, TRUE)
    IN  IF i # 0 THEN cleanText(hits[i])
        ELSE IF Length(withKeyword) > AcceptLen THEN cleanText(withKeyword)
        ELSE cleanText(LongestBlock(paras, 1, withKeyword, FALSE))

RECURSIVE detectJobTitleFrom(_, _)
\* first element with 2 < textContent.length < 150 whose cleaned text has
\* neither "menu" nor "search"
detectJobTitleFrom(hits, i) ==
    IF i > Len(hits) THEN ""
    ELSE IF hits[i].n > 2 /\ hits[i].n < 150 /\ ~hits[i].nav THEN hits[i].text
    ELSE detectJobTitleFrom(hits, i + 1)

detectJobTitle(hits) == detectJobTitleFrom(hits, 1)

RECURSIVE detectCompanyFrom(_, _)
\* first element with 1 < textContent.length < 100
detectCompanyFrom(hits, i) ==
    IF i > Len(hits) THEN ""
    ELSE IF hits[i].n > 1 /\ hits[i].n < 100 THEN hits[i].text
    ELSE detectCompanyFrom(hits, i + 1)

detectCompany(hits) == detectCompanyFrom(hits, 1)

\* the page title fills in what the selectors left blank
detectJobInfo(tHits, cHits, title) ==
    LET jobTitle == detectJobTitle(tHits)
        company  == detectCompany(cHits)
        useTitle == (jobTitle = "" \/ company = "") /\ title.matches
    IN  [jobTitle |-> IF useTitle /\ jobTitle = "" THEN title.title ELSE jobTitle,
         company  |-> IF useTitle /\ company = "" THEN title.company ELSE company]

Detection(jd, jobTitle, company, method) ==
    [jd |-> jd, jobTitle |-> jobTitle, company |-> company, method |-> method]

detectJobDescriptionMultiStrategy_MetaFirst ==
    LET schemaResult == detectFromSchemaOrg(scripts)
        metaResult   == detectFromMetaTags(metaTags)
        jobInfo      == detectJobInfo(titleHits, companyHits, pageTitle)
    IN  IF metaResult.description # <<>> /\ Length(metaResult.description) > AcceptLen
        THEN Detection(metaResult.description,
                       OrStr(metaResult.title, detectJobTitle(titleHits)),
                       detectCompany(companyHits), "meta_tags")
        ELSE IF /\ schemaResult.kind # "null"
                /\ schemaResult.description # <<>>
                /\ Length(schemaResult.description) > AcceptLen
        THEN Detection(schemaResult.description,
                       OrStr(schemaResult.title, detectJobTitle(titleHits)),
                       OrStr(schemaResult.company, detectCompany(companyHits)),
                       "schema_org")
        ELSE Detection(detectFromSelectors(selectorHits, paragraphs),
                       jobInfo.jobTitle, jobInfo.company, "css_selectors")

detectJobDescriptionMultiStrategy ==
    LET schemaResult == detectFromSchemaOrg(scripts)
        metaResult   == detectFromMetaTags(metaTags)
        jobInfo      == detectJobInfo(titleHits, companyHits, pageTitle)
    IN  IF /\ schemaResult.kind # "null"
           /\ schemaResult.description # <<>>
           /\ Length(schemaResult.description) > AcceptLen
        THEN Detection(schemaResult.description,
                       OrStr(schemaResult.title, detectJobTitle(titleHits)),
                       OrStr(schemaResult.company, detectCompany(companyHits)),
                       "schema_org")
        ELSE IF metaResult.description # <<>> /\ Length(metaResult.description) > AcceptLen
        THEN Detection(metaResult.description,
                       OrStr(metaResult.title, detectJobTitle(titleHits)),
                       detectCompany(companyHits), "meta_tags")
        ELSE Detection(detectFromSelectors(selectorHits, paragraphs),
                       jobInfo.jobTitle, jobInfo.company, "css_selectors")

\* the two earlier content scripts: detectJobDescription() and detectJobInfo()
\* (their selector lists differ, the scan is the same; no keyword pass)
detectJobDescription(hits, paras) ==
    LET i == FirstLongHit(hits, 1)
    IN  IF i # 0 THEN cleanText(hits[i])
        ELSE cleanText(LongestBlock(paras, 1, <<>>, FALSE))

(***************************************************************************)
(* Form filling.  An element is [type, identKeys, labelKeys, labelFor,     *)
(* value]: identKeys are the field keys one of whose patterns occurs in    *)
(* name/id/placeholder/class (and aria-label, data-testid), labelKeys      *)
(* those with a pattern in the label text, labelFor whether the label was  *)
(* found as label[for=id].  The installed content script is                *)
(*   "v1"  src/content/contentScript.ts                                    *)
(*   "v2"  the script with filledCount and the blank check                 *)
(*   "v3"  the script with the strategy chain (same fill code as v2)       *)
(***************************************************************************)
FieldKeys == <<"firstName", "lastName", "email", "phone", "linkedin", "github",
               "portfolio", "coverLetter">>

NoData == [kind |-> "undefined"]

\* el.type checks at the top of the loop body
Skipped(v, el) ==
    IF v = "v1" THEN el.type \in {"hidden", "submit"}
    ELSE el.type \in {"hidden", "submit", "file", "checkbox", "radio"}

\* the keys, in table order, of a key set for which the data has a value
KeysIn(keys, data) ==
    SelectSeq(FieldKeys, LAMBDA k : k \in keys /\ data[k] # <<>>)

Calls_EveryKey(v, el, data) ==
    IF Skipped(v, el) THEN <<>> ELSE KeysIn(el.identKeys \cup el.labelKeys, data)

\* the fillField calls fillForm makes for one element, in order.
\* v1: every matching key of the identifier loop, then, with a label[for],
\*     every matching key of the label loop (break leaves the pattern loop only)
\* v2, v3: the first key matching identifier + " " + label (filled = true)
Calls(v, el, data) ==
    IF Skipped(v, el) THEN <<>>
    ELSE IF v = "v1"
         THEN KeysIn(el.identKeys, data)
                \o (IF el.labelFor THEN KeysIn(el.labelKeys, data) ELSE <<>>)
         ELSE LET all == KeysIn(el.identKeys \cup el.labelKeys, data)
              IN  IF all = <<>> THEN <<>> ELSE <<Head(all)>>

\* contentScript.ts: if (element.value) return; element.value = value
fillFieldV1(value, newValue) ==
    IF value # <<>> THEN [wrote |-> FALSE, value |-> value, steps |-> <<>>]
    ELSE [wrote |-> TRUE, value |-> newValue,
          steps |-> <<"focus", "set", "input", "change", "blur">>]

\* what fillField does to an element it fills, in order: focus(), value = "",
\* the value setter, the four dispatchEvent calls
FillSteps == <<"focus", "clear", "set", "input", "change", "keyup", "blur">>

fillField_NoGuard(value, newValue) == [wrote |-> TRUE, value |-> newValue, steps |-> FillSteps]

fillField_EventsFirst(value, newValue) ==
    IF value # <<>> /\ Trim(value) # <<>> THEN [wrote |-> FALSE, value |-> value, steps |-> <<>>]
    ELSE [wrote |-> TRUE, value |-> newValue,
          steps |-> <<"focus", "clear", "input", "change", "keyup", "blur", "set">>]

\* if (element.value && element.value.trim()) return; ... setter(value)
fillField(value, newValue) ==
    IF value # <<>> /\ Trim(value) # <<>> THEN [wrote |-> FALSE, value |-> value, steps |-> <<>>]
    ELSE [wrote |-> TRUE, value |-> newValue, steps |-> FillSteps]

RECURSIVE Scan(_, _, _, _, _, _, _, _)
\* fillForm from element e, call c, up to and including the next write (the
\* settle delay after it is the only point where another event can run), or
\* up to the end of the element list
Scan(v, h, els, data, e, c, count, log) ==
    IF e > Len(els)
    THEN [els |-> els, e |-> e, c |-> c, count |-> count, log |-> log, finished |-> TRUE]
    ELSE LET calls == Calls(v, els[e], data)
         IN  IF c > Len(calls) THEN Scan(v, h, els, data, e + 1, 1, count, log)
             ELSE LET key  == calls[c]
                      r    == IF v = "v1" THEN fillFieldV1(els[e].value, data[key])
                              ELSE fillField(els[e].value, data[key])
                      els2 == [els EXCEPT ![e].value = r.value]
                      log2 == Append(log, [h |-> h, el |-> e, key |-> key, wrote |-> r.wrote,
                                           steps |-> r.steps])
                  IN  IF r.wrote
                      THEN [els |-> els2, e |-> e, c |-> c + 1, count |-> count + 1,
                            log |-> log2, finished |-> FALSE]
                      ELSE Scan(v, h, els2, data, e, c + 1, count + 1, log2)

\* fillForm(undefined): the first data[key] read throws (v1); v2 and v3
\* throw before, at Object.keys(message.data)
FillThrows(v, els, data) ==
    /\ data = NoData
    /\ (v = "v1" => \E i \in DOMAIN els : ~Skipped(v, els[i]))

\* getFormFields: every input/textarea/select but hidden, submit and button
getFormFields(els) ==
    LET kept == SelectSeq(els, LAMBDA el : el.type \notin {"hidden", "submit", "button"})
    IN  [i \in DOMAIN kept |-> [type |-> kept[i].type, value |-> kept[i].value]]

\* the first content scripts' title heuristic: 2 < length < 100, no filter
RECURSIVE detectJobTitleV1From(_, _)
detectJobTitleV1From(hits, i) ==
    IF i > Len(hits) THEN ""
    ELSE IF hits[i].n > 2 /\ hits[i].n < 100 THEN hits[i].text
    ELSE detectJobTitleV1From(hits, i + 1)

detectJobInfoV1(tHits, cHits, title) ==
    LET jobTitle == detectJobTitleV1From(tHits, 1)
        company  == detectCompany(cHits)
        useTitle == (jobTitle = "" \/ company = "") /\ title.matches
    IN  [jobTitle |-> IF useTitle /\ jobTitle = "" THEN title.title ELSE jobTitle,
         company  |-> IF useTitle /\ company = "" THEN title.company ELSE company]

(***************************************************************************)
(* Content-script handleMessage.  A response is [success, data, error];    *)
(* data and error are Absent when the handler does not send them.          *)
(***************************************************************************)
Absent == [kind |-> "absent"]

Ok(data)    == [success |-> TRUE, data |-> data, error |-> Absent]
Fail(error) == [success |-> FALSE, data |-> Absent, error |-> error]

Message(type, data) == [type |-> type, data |-> data]

IdleHandler == [pc |-> "idle", msg |-> Message("", NoData), el |-> 1, call |-> 1,
                count |-> 0, resp |-> <<>>]

DetectResponse_FailOnEmpty(v) ==
    LET result == detectJobDescriptionMultiStrategy
    IN  IF v = "v3" /\ result.jd = <<>>
        THEN Fail("Could not detect job description on this page")
        ELSE Ok(result)

\* DETECT_JD
DetectResponse(v) ==
    IF v = "v3" THEN Ok(detectJobDescriptionMultiStrategy)
    ELSE LET jobInfo == detectJobInfoV1(titleHits, companyHits, pageTitle)
         IN  Ok(Detection(detectJobDescription(selectorHits, paragraphs),
                          jobInfo.jobTitle, jobInfo.company, "absent"))

\* FILL_FORM's answer once fillForm has returned
FillResponse(v, count) ==
    IF v = "v1" THEN Ok(Absent) ELSE Ok([filledCount |-> count])

\* the switch of handleMessage for the cases that never suspend
SyncResponse(v, msg) ==
    CASE msg.type = "DETECT_JD"       -> DetectResponse(v)
      [] msg.type = "GET_FORM_FIELDS" -> Ok(getFormFields(elements))
      [] msg.type = "PING"            -> Ok("pong")
      [] OTHER                        -> Fail("Unknown message type")

\* a message other than FILL_FORM: handled and answered in one turn
HandleSync(h, msg) ==
    /\ handlers[h].pc = "idle"
    /\ msg.type # "FILL_FORM"
    /\ handlers' = [handlers EXCEPT ![h] =
           [@ EXCEPT !.pc = "done", !.msg = msg,
                     !.resp = Append(@, SyncResponse(variant, msg))]]
    /\ UNCHANGED <<elements, variant, fillLog, schemaOut>>

\* one turn of fillForm: run to the next settle delay or to the answer
FillTurn(h, msg, e, c, count) ==
    LET r == Scan(variant, h, elements, msg.data, e, c, count, fillLog)
    IN  /\ elements' = r.els
        /\ fillLog' = r.log
        /\ handlers' = [handlers EXCEPT ![h] =
               [@ EXCEPT !.pc = IF r.finished THEN "done" ELSE "delay",
                         !.msg = msg, !.el = r.e, !.call = r.c, !.count = r.count,
                         !.resp = IF r.finished
                                  THEN Append(@, FillResponse(variant, r.count))
                                  ELSE @]]

\* FILL_FORM arrives
HandleFill(h, msg) ==
    /\ handlers[h].pc = "idle"
    /\ msg.type = "FILL_FORM"
    /\ IF FillThrows(variant, elements, msg.data)
       THEN /\ handlers' = [handlers EXCEPT ![h] =
                   [@ EXCEPT !.pc = "done", !.msg = msg,
                             !.resp = Append(@, Fail("TypeError"))]]
            /\ UNCHANGED <<elements, fillLog>>
       ELSE IF msg.data = NoData
       THEN /\ handlers' = [handlers EXCEPT ![h] =
                   [@ EXCEPT !.pc = "done", !.msg = msg,
                             !.resp = Append(@, FillResponse(variant, 0))]]
            /\ UNCHANGED <<elements, fillLog>>
       ELSE FillTurn(h, msg, 1, 1, 0)
    /\ UNCHANGED <<variant, schemaOut>>

\* the settle delay of fillField elapses
FillResume(h) ==
    /\ handlers[h].pc = "delay"
    /\ FillTurn(h, handlers[h].msg, handlers[h].el, handlers[h].call, handlers[h].count)
    /\ UNCHANGED <<variant, schemaOut>>

\* the exported structured-data extractor, called on the page
RunExtractSchemaOrg ==
    /\ schemaOut = NotRun
    /\ schemaOut' = extractSchemaOrgJobPosting(scripts)
    /\ UNCHANGED <<handlers, fillLog, elements, variant>>

(***************************************************************************)
(* Initial values of the parts a specification leaves alone                *)
(***************************************************************************)
NoMeta == [ogTitle |-> "", og |-> <<>>, twitterTitle |-> "", twitter |-> <<>>, std |-> <<>>]
NoPageTitle == [matches |-> FALSE, title |-> "", company |-> ""]

Handlers == {"h1", "h2"}

BlankPage ==
    /\ scripts = <<>>
    /\ metaTags = NoMeta
    /\ selectorHits = <<>>
    /\ paragraphs = <<>>
    /\ titleHits = <<>>
    /\ companyHits = <<>>
    /\ pageTitle = NoPageTitle

NoForm == variant = "v3" /\ elements = <<>>

ContentIdle ==
    /\ handlers = [h \in Handlers |-> IdleHandler]
    /\ fillLog = <<>>
    /\ schemaOut = NotRun

DefaultConfig == [provider |-> "groq", hasKey |-> FALSE, hasResume |-> FALSE]

BackgroundIdle == storage = DefaultConfig /\ bgHandled = <<>>

PanelIdle == panel = NotRun /\ runs = <<>> /\ llmLog = <<>>

ExtractorIdle ==
    /\ xResponse = NotRun /\ xResult = NotRun
    /\ xPage = NotRun /\ xContent = NotRun /\ xPrompt = NotRun
Tasks == {"t1", "t2"}
IdleTask == [op |-> "none", pc |-> "idle", id |-> 0, pending |-> <<>>, rest |-> <<>>]
CompaniesIdle ==
    /\ companyStorage = <<>> /\ targetCompanies = <<>>
    /\ companyTasks = [t \in Tasks |-> IdleTask] /\ removedIds = {}
    /\ storageQueue = <<>>
MatcherIdle == mInput = NotRun /\ mResult = NotRun /\ ExtractorIdle /\ CompaniesIdle

(***************************************************************************)
(* SpecFill: FILL_FORM requests on a page with a form                      *)
(***************************************************************************)
MaxElements == 2

Blank2 == <<Seg("s", 2)>>
Typed  == <<Seg("w", 7)>>

Element(type, identKeys, labelKeys, labelFor, value) ==
    [type |-> type, identKeys |-> identKeys, labelKeys |-> labelKeys,
     labelFor |-> labelFor, value |-> value]

ElementChoices ==
    {Element("text", {"email"}, {}, FALSE, v) : v \in {<<>>, Blank2, Typed}}
    \cup {Element("text", {"firstName"}, {"email"}, TRUE, v) : v \in {<<>>, Blank2, Typed}}
    \cup {Element("hidden", {"email"}, {}, FALSE, <<>>),
          Element("radio", {"email"}, {}, FALSE, <<>>),
          Element("textarea", {}, {}, FALSE, <<>>)}

\* the value the side panel sends for a key: distinct per key
ValueOf(k) == <<Seg("w", 10 + CHOOSE i \in DOMAIN FieldKeys : FieldKeys[i] = k)>>

DataWith(keys) == [k \in Range(FieldKeys) |-> IF k \in keys THEN ValueOf(k) ELSE <<>>]

\* a value of spaces only is a non-empty string: fillForm passes it on
BlankData == [DataWith({"firstName"}) EXCEPT !["email"] = Blank2]

DataChoices ==
    {NoData, BlankData} \cup {DataWith(S) : S \in SUBSET {"firstName", "email"}}

InitFill ==
    /\ BlankPage
    /\ variant \in {"v1", "v2", "v3"}
    /\ elements \in SeqsUpTo(ElementChoices, MaxElements)
    /\ ContentIdle
    /\ BackgroundIdle /\ PanelIdle /\ MatcherIdle

ReceiveFill(h) ==
    /\ \E data \in DataChoices : HandleFill(h, Message("FILL_FORM", data))
    /\ UNCHANGED <<pageVars, bgVars, panelVars, matchVars, extractVars, companyVars>>

SettleDelay(h) ==
    /\ FillResume(h)
    /\ UNCHANGED <<pageVars, bgVars, panelVars, matchVars, extractVars, companyVars>>

NextFill == \E h \in Handlers : ReceiveFill(h) \/ SettleDelay(h)

SpecFill == InitFill /\ [][NextFill]_vars

\* C2: an element whose value has a non-whitespace character keeps its value
\* in every step of every FILL_FORM call; only blank elements are written
C2_NonBlankNeverOverwritten ==
    [][\A i \in DOMAIN elements :
          Trim(elements[i].value) # <<>> => elements'[i].value = elements[i].value]_vars

\* a finished call whose fillField was handed an element holding user input
C2_Witness ==
    \E h \in Handlers : \E j \in DOMAIN fillLog :
        /\ handlers[h].pc = "done"
        /\ fillLog[j].h = h
        /\ ~fillLog[j].wrote
        /\ elements[fillLog[j].el].value = Typed
        /\ \E k \in DOMAIN fillLog : fillLog[k].wrote

(***************************************************************************)
(* SpecDetect: DETECT_JD on pages with structured data, meta tags and      *)
(* markup; the content script with the strategy chain is installed         *)
(***************************************************************************)
MaxScripts == 1
MaxParas   == 1

Payload(title, company, desc) == [title |-> title, company |-> company, desc |-> desc]

Words(n) == <<Seg("w", n)>>

\* 360 characters of HTML of which 150 are text
MarkupText == <<Seg("t", 60), Seg("w", 150), Seg("s", 40), Seg("x", 100), Seg("t", 10)>>
\* 300 characters of which 100 are not whitespace
PaddedText == <<Seg("s", 150), Seg("w", 100), Seg("s", 50)>>
\* 616 characters with a job keyword
KeywordText == <<Seg("w", 300), Seg("s", 1), Seg("kw", 15), Seg("s", 1), Seg("w", 299)>>

Posting(ty, title, desc) == Obj(ty, Payload(title, "", desc), <<>>)

DetectBlocks ==
    {Posting("JobPosting", "Dev", d) :
        d \in {Words(150), Words(200), Words(201), MarkupText, <<>>}}
    \cup {Posting("Other", "", <<>>), InvalidBlock}

MetaChoices ==
    {[ogTitle |-> IF og = <<>> THEN "" ELSE "OgTitle", og |-> og,
      twitterTitle |-> "", twitter |-> tw, std |-> sd] :
        og \in {<<>>, Words(50), Words(300), PaddedText},
        tw \in {<<>>, Words(250)},
        sd \in {<<>>, Words(201)}}

HitChoices  == {Words(150), PaddedText, Words(300)}
ParaChoices == {Words(600), KeywordText, Words(400)}

TitleEl   == [n |-> 20, nav |-> FALSE, text |-> "Engineer"]
PageTitle == [matches |-> TRUE, title |-> "Lead", company |-> "Acme"]

InitDetect ==
    /\ scripts \in SeqsUpTo(DetectBlocks, MaxScripts)
    /\ metaTags \in MetaChoices
    /\ selectorHits \in SeqsUpTo(HitChoices, 1)
    /\ paragraphs \in SeqsUpTo(ParaChoices, MaxParas)
    /\ titleHits \in {<<>>, <<TitleEl>>}
    /\ companyHits = <<>>
    /\ pageTitle \in {NoPageTitle, PageTitle}
    /\ NoForm /\ ContentIdle
    /\ BackgroundIdle /\ PanelIdle /\ MatcherIdle

ReceiveDetect(h) ==
    /\ HandleSync(h, Message("DETECT_JD", NoData))
    /\ UNCHANGED <<pageVars, bgVars, panelVars, matchVars, extractVars, companyVars>>

ExtractSchemaOrg ==
    /\ RunExtractSchemaOrg
    /\ UNCHANGED <<pageVars, bgVars, panelVars, matchVars, extractVars, companyVars>>

NextDetect == ReceiveDetect("h1") \/ ExtractSchemaOrg

SpecDetect == InitDetect /\ [][NextDetect]_vars

(***************************************************************************)
(* The search order of the structured-data extractor, stated on its own:   *)
(* the nodes of a value in pre-order (an object before its @graph items,   *)
(* items left to right), the blocks in document order.                     *)
(***************************************************************************)
RECURSIVE Preorder(_)
RECURSIVE PreorderAll(_)
PreorderAll(items) ==
    IF items = <<>> THEN <<>> ELSE Preorder(Head(items)) \o PreorderAll(Tail(items))

Preorder(v) ==
    IF v.kind = "obj" THEN <<v>> \o PreorderAll(v.sub)
    ELSE IF v.kind = "arr" THEN PreorderAll(v.sub)
    ELSE <<>>

PostingsInOrder(blocks) == SelectSeq(PreorderAll(blocks), IsJobPosting)

HasPosting(blocks) == PostingsInOrder(blocks) # <<>>

FirstPosting(blocks) == Head(PostingsInOrder(blocks))

\* the description the meta tags offer: the first non-empty of the three
MetaDescription ==
    IF metaTags.og # <<>> THEN metaTags.og
    ELSE IF metaTags.twitter # <<>> THEN metaTags.twitter
    ELSE metaTags.std

SchemaAccepted ==
    HasPosting(scripts) /\ Length(cleanHtml(FirstPosting(scripts).p.desc)) > AcceptLen

MetaAccepted == Length(MetaDescription) > AcceptLen

\* the answers handler h has sent to a DETECT_JD request under v3
DetectAnswered(h) ==
    /\ handlers[h].pc = "done"
    /\ handlers[h].msg.type = "DETECT_JD"
    /\ variant = "v3"

\* C1: the method names the first strategy, in the order schema_org,
\* meta_tags, css_selectors, whose description is longer than 200 characters
\* (css_selectors when neither is); no other method is returned
C1_MethodFollowsPriority ==
    \A h \in Handlers : DetectAnswered(h) =>
        LET r == handlers[h].resp[1].data
        IN  /\ r.method \in {"schema_org", "meta_tags", "css_selectors"}
            /\ (r.method = "schema_org" <=> SchemaAccepted)
            /\ (r.method = "meta_tags" <=> ~SchemaAccepted /\ MetaAccepted)
            /\ (r.method = "css_selectors" <=> ~SchemaAccepted /\ ~MetaAccepted)

\* structured data that is too short after cleaning, a long meta description
C1_Witness ==
    /\ DetectAnswered("h1")
    /\ HasPosting(scripts)
    /\ Length(FirstPosting(scripts).p.desc) > AcceptLen
    /\ ~SchemaAccepted
    /\ MetaAccepted
    /\ handlers["h1"].resp[1].data.method = "meta_tags"

\* no strategy finds a description on the page
NothingFound ==
    /\ ~SchemaAccepted
    /\ ~MetaAccepted
    /\ \A i \in DOMAIN selectorHits : Length(selectorHits[i]) <= AcceptLen
    /\ \A i \in DOMAIN paragraphs : Length(paragraphs[i]) <= BlockLen

\* C9: with nothing to find DETECT_JD is answered success=true with an empty
\* jd and method css_selectors
C9_EmptyDetectionSucceeds ==
    \A h \in Handlers : DetectAnswered(h) /\ NothingFound =>
        /\ Len(handlers[h].resp) = 1
        /\ handlers[h].resp[1].success
        /\ handlers[h].resp[1].data.jd = <<>>
        /\ handlers[h].resp[1].data.method = "css_selectors"

\* a page with short structured data, a short selector hit and a short block
C9_Witness ==
    /\ DetectAnswered("h1")
    /\ NothingFound
    /\ scripts # <<>> /\ selectorHits # <<>> /\ paragraphs # <<>>
    /\ handlers["h1"].resp[1].success

(***************************************************************************)
(* SpecSchema: the structured-data extractor on pages whose script blocks  *)
(* nest JobPosting nodes in @graph arrays and plain arrays                 *)
(***************************************************************************)
MaxBlocks == 2

LeafA == Posting("JobPosting", "A", Words(600))
LeafB == Posting("ListJP", "B", MarkupText \o Words(300))
LeafO == Posting("Other", "O", Words(600))
LeafL == Posting("ListOther", "L", Words(600))

Graph(items) == Obj("Other", NoPayload, items)

Nested1 ==
    {Arr(<<a, b>>) : a \in {LeafA, LeafB, LeafO}, b \in {LeafA, LeafB, LeafO}}
    \cup {Graph(<<a, b>>) : a \in {LeafB, LeafL, JsonNull}, b \in {LeafB, LeafO}}

Nested2 ==
    {Arr(<<x, LeafA>>) : x \in Nested1} \cup {Graph(<<x, LeafA>>) : x \in Nested1}
    \cup {Obj("JobPosting", Payload("C", "", Words(300)), <<LeafA>>)}

SchemaBlocks ==
    {LeafA, LeafO, JsonNull, InvalidBlock, EmptyBlock} \cup Nested1 \cup Nested2

InitSchema ==
    /\ scripts \in SeqsUpTo(SchemaBlocks, MaxBlocks)
    /\ metaTags = NoMeta
    /\ selectorHits = <<>>
    /\ paragraphs = <<>>
    /\ titleHits = <<>>
    /\ companyHits = <<>>
    /\ pageTitle = NoPageTitle
    /\ NoForm /\ ContentIdle
    /\ BackgroundIdle /\ PanelIdle /\ MatcherIdle

SpecSchema == InitSchema /\ [][NextDetect]_vars

\* the blocks that parse: a block without content or with invalid JSON is skipped
Parsed(blocks) == SelectSeq(blocks, LAMBDA b : b.kind \notin {"invalid", "empty"})

\* C10: the extractor returns the record of the first JobPosting in search
\* order (blocks in document order, pre-order through @graph and arrays),
\* skipping blocks that do not parse, and null when there is none; so does
\* the content script's inline extractor
C10_FirstPostingInSearchOrder ==
    /\ schemaOut # NotRun =>
          IF HasPosting(Parsed(scripts))
          THEN schemaOut = parseJobPosting(FirstPosting(Parsed(scripts)))
          ELSE schemaOut = NullResult
    /\ DetectAnswered("h1") =>
          LET r == handlers["h1"].resp[1].data
          IN  IF HasPosting(Parsed(scripts))
              THEN /\ r.method = "schema_org"
                   /\ r.jd = cleanHtml(FirstPosting(Parsed(scripts)).p.desc)
                   /\ r.jobTitle = FirstPosting(Parsed(scripts)).p.title
              ELSE r.method = "css_selectors"

\* an invalid block, then a block whose first posting in pre-order lies
\* deeper than a later sibling posting
C10_Witness ==
    /\ schemaOut # NotRun
    /\ DetectAnswered("h1")
    /\ Len(scripts) = 2
    /\ scripts[1] = InvalidBlock
    /\ scripts[2] = Arr(<<Graph(<<LeafL, LeafB>>), LeafA>>)
    /\ schemaOut.title = "B"
    /\ handlers["h1"].resp[1].data.jobTitle = "B"

\* no block holds a posting: null, not an error
C10_WitnessNone ==
    /\ schemaOut = NullResult
    /\ Len(scripts) = 2
    /\ scripts[1] = InvalidBlock
    /\ scripts[2] = Arr(<<LeafO, LeafO>>)

(***************************************************************************)
(* Background service worker: handleMessage over chrome.storage.sync.      *)
(* The stored configuration is [provider, hasKey, hasResume]: the selected *)
(* provider, whether that provider's required setting is non-empty, and    *)
(* whether masterResumeYaml is non-empty.                                  *)
(***************************************************************************)
Providers == {"ollama", "groq", "gemini"}

\* chrome.storage.sync.set(config): the keys given replace the stored ones
Patched(st, patch) ==
    [f \in DOMAIN st |-> IF f \in DOMAIN patch THEN patch[f] ELSE st[f]]

\* ConfigManager.getProviderConfig
getProviderConfig(st) ==
    IF st.provider \in Providers
    THEN Ok([provider |-> st.provider, hasKey |-> st.hasKey])
    ELSE Fail("Provider not supported")

\* ConfigManager.isConfigured
isConfigured(st) == st.provider \in Providers /\ st.hasKey

BgResponse_SilentDefault(msg, st, rejects) ==
    CASE msg.type = "GET_CONFIG" -> <<Ok(st)>>
      [] msg.type = "SAVE_CONFIG" -> <<Ok(Absent)>>
      [] msg.type = "GET_PROVIDER_CONFIG" -> <<getProviderConfig(st)>>
      [] msg.type = "IS_CONFIGURED" -> <<Ok(isConfigured(st))>>
      [] OTHER -> <<>>

\* what the background sends for a message: the sequence of sendResponse
\* calls; rejects: the storage call of this message rejects
BgResponse(msg, st, rejects) ==
    IF msg.type \in {"GET_CONFIG", "SAVE_CONFIG", "GET_PROVIDER_CONFIG", "IS_CONFIGURED"}
       /\ (rejects \/ (msg.type = "SAVE_CONFIG" /\ msg.data = NoData))
    THEN <<Fail("storage error")>>
    ELSE CASE msg.type = "GET_CONFIG" -> <<Ok(st)>>
           [] msg.type = "SAVE_CONFIG" -> <<Ok(Absent)>>
           [] msg.type = "GET_PROVIDER_CONFIG" -> <<getProviderConfig(st)>>
           [] msg.type = "IS_CONFIGURED" -> <<Ok(isConfigured(st))>>
           [] OTHER -> <<Fail("Unknown message type")>>

\* the background handles one message
BgHandle(msg, rejects) ==
    LET resp == BgResponse(msg, storage, rejects)
        saved == msg.type = "SAVE_CONFIG" /\ resp # <<>> /\ resp[1].success
    IN  /\ storage' = IF saved THEN Patched(storage, msg.data) ELSE storage
        /\ bgHandled' = <<[msg |-> msg, resp |-> resp,
                           threw |-> rejects \/ (msg.type = "SAVE_CONFIG" /\ msg.data = NoData)
                                     \/ (msg.type = "GET_PROVIDER_CONFIG"
                                         /\ storage.provider \notin Providers)]>>

(***************************************************************************)
(* SpecMsg: every message type at both message handlers                    *)
(***************************************************************************)
ContentTypes == {"DETECT_JD", "FILL_FORM", "GET_FORM_FIELDS", "PING"}
BgTypes      == {"GET_CONFIG", "SAVE_CONFIG", "GET_PROVIDER_CONFIG", "IS_CONFIGURED"}
UnknownTypes == {"RESET"}

ConfigPatches == {[hasKey |-> TRUE], [provider |-> "openai"]}

InitMsg ==
    /\ BlankPage
    /\ variant \in {"v1", "v2", "v3"}
    /\ elements \in {<<>>,
                     <<Element("text", {"email"}, {}, FALSE, <<>>)>>,
                     <<Element("hidden", {"email"}, {}, FALSE, <<>>)>>}
    /\ ContentIdle
    /\ storage = DefaultConfig
    /\ bgHandled = <<>>
    /\ PanelIdle /\ MatcherIdle

ReceiveOther(h) ==
    /\ \E type \in (ContentTypes \ {"FILL_FORM"}) \cup UnknownTypes :
          HandleSync(h, Message(type, NoData))
    /\ UNCHANGED <<pageVars, bgVars, panelVars, matchVars, extractVars, companyVars>>

BgReceive ==
    /\ \E type \in BgTypes \cup UnknownTypes, data \in ConfigPatches \cup {NoData},
          rejects \in BOOLEAN :
          /\ (data # NoData => type = "SAVE_CONFIG")
          /\ (rejects => type \in BgTypes)
          /\ BgHandle(Message(type, data), rejects)
    /\ UNCHANGED <<pageVars, formVars, csVars, panelVars, matchVars, extractVars, companyVars>>

NextMsg ==
    \/ \E h \in Handlers : ReceiveOther(h) \/ ReceiveFill(h) \/ SettleDelay(h)
    \/ BgReceive

SpecMsg == InitMsg /\ [][NextMsg]_vars

\* a response is an object carrying a boolean success; a failure carries an
\* error string and no data
WellFormed(r) ==
    /\ r.success \in BOOLEAN
    /\ (~r.success => r.error \in STRING)
    /\ (r.success => r.error = Absent)

\* the content-script handler threw while handling its message
ContentThrew(h) ==
    /\ handlers[h].msg.type = "FILL_FORM"
    /\ FillThrows(variant, elements, handlers[h].msg.data)

\* C8: every handled message is answered exactly once with a boolean
\* success; an unknown type or an exception gives success=false with an
\* error string; a handler that has not finished has not answered
C8_ExactlyOneResponse ==
    /\ \A h \in Handlers :
          /\ handlers[h].pc # "done" => handlers[h].resp = <<>>
          /\ handlers[h].pc = "done" =>
                /\ Len(handlers[h].resp) = 1
                /\ WellFormed(handlers[h].resp[1])
                /\ (handlers[h].msg.type \notin ContentTypes \/ ContentThrew(h))
                      => ~handlers[h].resp[1].success
    /\ \A i \in DOMAIN bgHandled :
          /\ Len(bgHandled[i].resp) = 1
          /\ WellFormed(bgHandled[i].resp[1])
          /\ (bgHandled[i].msg.type \notin BgTypes \/ bgHandled[i].threw)
                => ~bgHandled[i].resp[1].success

\* a FILL_FORM answered after a settle delay, a FILL_FORM that threw, and a
\* background message of unknown type, each answered once
C8_Witness ==
    /\ handlers["h1"].pc = "done" /\ handlers["h1"].msg.type = "FILL_FORM"
    /\ \E j \in DOMAIN fillLog : fillLog[j].h = "h1" /\ fillLog[j].wrote
    /\ handlers["h2"].pc = "done" /\ ContentThrew("h2")
    /\ bgHandled # <<>> /\ bgHandled[1].msg.type \in UnknownTypes

(***************************************************************************)
(* Generation pipeline: LLM replies, ResumeEditor, CoverLetterGenerator     *)
(*                                                                         *)
(* The content of a Pass 1 reply is a sequence of pieces: "json" (the text *)
(* of one JSON value, carrying the analysis it denotes), "text" (prose     *)
(* without braces or fences), "fence" (three backticks), and "open" and    *)
(* "close" (a stray brace).                                                *)
(***************************************************************************)
Piece(k, id) == [k |-> k, id |-> id]

Threw(error)    == [threw |-> TRUE, value |-> Absent, error |-> error]
Returned(value) == [threw |-> FALSE, value |-> value, error |-> Absent]

\* JSON.parse
JsonParse(content) ==
    IF Len(content) = 1 /\ content[1].k = "json"
    THEN Returned([analysis |-> content[1].id])
    ELSE Threw("SyntaxError")

Positions(content, kinds) == {i \in DOMAIN content : content[i].k \in kinds}

MinOf(S) == CHOOSE x \in S : \A y \in S : x <= y
MaxOf(S) == CHOOSE x \in S : \A y \in S : x >= y

\* ResumeEditor.parseJsonResponse
parseJsonResponse(content) ==
    LET direct == JsonParse(content)
        fences == Positions(content, {"fence"})
        opens  == Positions(content, {"json", "open"})
        closes == Positions(content, {"json", "close"})
    IN  IF ~direct.threw THEN direct
        ELSE IF Cardinality(fences) >= 2
        THEN LET f1 == MinOf(fences)
                 f2 == MinOf(fences \ {f1})
             IN  JsonParse(SubSeq(content, f1 + 1, f2 - 1))
        ELSE IF opens # {} /\ closes # {} /\ MinOf(opens) <= MaxOf(closes)
        THEN JsonParse(SubSeq(content, MinOf(opens), MaxOf(closes)))
        ELSE Threw("Failed to parse JD analysis JSON")

\* a reply of the provider: generate() resolves with content or rejects
Resolve(content) == [ok |-> TRUE, content |-> content]
Rejects          == [ok |-> FALSE, content |-> <<>>]

\* a request of the pipeline as logged at the provider
Request(run, pass, arg) ==
    [run |-> run, pass |-> pass, arg |-> arg, state |-> "pending", reply |-> Rejects]

afterAnalyzeJD_Swallow(reply) ==
    IF ~reply.ok THEN Returned([analysis |-> 0])
    ELSE LET parsed == parseJsonResponse(reply.content)
         IN  IF parsed.threw THEN Returned([analysis |-> 0]) ELSE parsed

\* optimize after "await this.analyzeJD": the analysis, or the rejection
\* that optimize passes on
afterAnalyzeJD(reply) ==
    IF ~reply.ok THEN Threw("provider error")
    ELSE parseJsonResponse(reply.content)

rewriteResumeRequest_NoAnalysis(run, jdAnalysis) ==
    Request(run, "rewriteResume", [analysis |-> 0])

\* rewriteResume: the Pass 2 request built from Pass 1's analysis
rewriteResumeRequest(run, jdAnalysis) ==
    Request(run, "rewriteResume", jdAnalysis)

\* optimize after "await this.rewriteResume": both results or the rejection
afterRewriteResume(jdAnalysis, reply) ==
    IF ~reply.ok THEN Threw("provider error")
    ELSE Returned([resume |-> Trim(reply.content), jdAnalysis |-> jdAnalysis])

\* CoverLetterGenerator.generate: the request, and its result
coverLetterRequest(run, resumeText) == Request(run, "coverLetter", resumeText)

afterCoverLetter(reply) ==
    IF ~reply.ok THEN Threw("provider error")
    ELSE Returned(Trim(reply.content))

\* createProvider
createProvider(config) ==
    IF config.provider \notin Providers THEN Threw("Provider not supported")
    ELSE IF config.provider \in {"groq", "gemini"} /\ ~config.hasKey
    THEN Threw("API key is required")
    ELSE Returned(config.provider)

(***************************************************************************)
(* Side panel: React state, handleGenerate, detectFromPage                 *)
(* A run is one call of handleGenerate that passed validation; its pc is   *)
(* the await it is suspended at.                                           *)
(***************************************************************************)
MaxRuns == 2

\* yaml.load(masterResumeYaml)
ParsedResume == [kind |-> "resume"]

MatchOf(masterResume, jd) == [kind |-> "match", jd |-> jd]

\* the error state of the panel: null, or a message
Err(message) == [kind |-> "error", message |-> message]

NoDetect == [pc |-> "idle", masterResume |-> Absent, jd |-> <<>>]

FreshPanel ==
    [jobDescription |-> <<>>, jobTitle |-> "", company |-> "",
     resume |-> <<>>, coverLetter |-> <<>>, jdAnalysis |-> Absent,
     masterResume |-> Absent, matchResult |-> Absent,
     isLoading |-> FALSE, error |-> Absent,
     isDetecting |-> FALSE, detectionStatus |-> "idle", detect |-> NoDetect]

PendingOf(r) == {i \in DOMAIN llmLog : llmLog[i].run = r /\ llmLog[i].state = "pending"}

\* the pending request of run r gets its reply
Answered(r, reply) ==
    [i \in DOMAIN llmLog |->
        IF i \in PendingOf(r)
        THEN [llmLog[i] EXCEPT !.state = IF reply.ok THEN "returned" ELSE "failed",
                               !.reply = reply]
        ELSE llmLog[i]]

\* handleGenerate up to its first await
handleGenerate ==
    IF Trim(panel.jobDescription) = <<>> \/ panel.jobTitle = "" \/ panel.company = ""
    THEN /\ panel' = [panel EXCEPT !.error = Err("Please fill in all fields")]
         /\ UNCHANGED <<runs, llmLog>>
    ELSE /\ Len(runs) < MaxRuns
         /\ panel' = [panel EXCEPT !.isLoading = TRUE, !.error = Absent,
                                   !.resume = <<>>, !.coverLetter = <<>>]
         /\ runs' = Append(runs,
               [pc |-> "cfg1", jobDescription |-> panel.jobDescription,
                jobTitle |-> panel.jobTitle, company |-> panel.company,
                before |-> [resume |-> panel.resume, coverLetter |-> panel.coverLetter],
                providerConfig |-> Absent, jdAnalysis |-> Absent, optimized |-> NotRun])
         /\ UNCHANGED llmLog

FailRun_NoFinally(r, error) ==
    /\ panel' = [panel EXCEPT !.error = Err(error)]
    /\ runs' = [runs EXCEPT ![r].pc = "failed"]

\* catch and finally of handleGenerate
FailRun(r, error) ==
    /\ panel' = [panel EXCEPT !.error = Err(error), !.isLoading = FALSE]
    /\ runs' = [runs EXCEPT ![r].pc = "failed",
                            ![r].optimized = IF runs[r].pc \in {"pass1", "pass2"}
                                             THEN Threw(error) ELSE @]

\* the Generate button (disabled while isLoading)
ClickGenerate ==
    /\ ~panel.isLoading
    /\ handleGenerate
    /\ UNCHANGED <<pageVars, formVars, csVars, bgVars, matchVars, extractVars, companyVars>>

\* the match card's "Apply -> Generate CV" button (rendered while there is
\* a match result and no resume)
ClickApply ==
    /\ panel.matchResult # Absent
    /\ panel.resume = <<>>
    /\ handleGenerate
    /\ UNCHANGED <<pageVars, formVars, csVars, bgVars, matchVars, extractVars, companyVars>>

\* GET_PROVIDER_CONFIG is answered
ProviderConfigReply(r, rejects) ==
    LET resp == BgResponse(Message("GET_PROVIDER_CONFIG", NoData), storage, rejects)[1]
    IN  /\ runs[r].pc = "cfg1"
        /\ IF ~resp.success THEN FailRun(r, resp.error)
           ELSE /\ runs' = [runs EXCEPT ![r].pc = "cfg2", ![r].providerConfig = resp.data]
                /\ UNCHANGED panel
        /\ UNCHANGED <<llmLog, pageVars, formVars, csVars, bgVars, matchVars, extractVars, companyVars>>

\* GET_CONFIG is answered: up to the Pass 1 request
ConfigReply(r, rejects) ==
    LET resp == BgResponse(Message("GET_CONFIG", NoData), storage, rejects)[1]
        provider == createProvider(runs[r].providerConfig)
        match == MatchOf(ParsedResume, runs[r].jobDescription)
    IN  /\ runs[r].pc = "cfg2"
        /\ IF ~resp.success THEN FailRun(r, resp.error) /\ UNCHANGED llmLog
           ELSE IF ~resp.data.hasResume
           THEN /\ FailRun(r, "Please upload your master resume YAML in Settings first")
                /\ UNCHANGED llmLog
           ELSE IF provider.threw
           THEN /\ panel' = [panel EXCEPT !.masterResume = ParsedResume, !.matchResult = match,
                                          !.error = Err(provider.error), !.isLoading = FALSE]
                /\ runs' = [runs EXCEPT ![r].pc = "failed"]
                /\ UNCHANGED llmLog
           ELSE /\ panel' = [panel EXCEPT !.masterResume = ParsedResume, !.matchResult = match]
                /\ runs' = [runs EXCEPT ![r].pc = "pass1"]
                /\ llmLog' = Append(llmLog, Request(r, "analyzeJD", runs[r].jobDescription))
        /\ UNCHANGED <<pageVars, formVars, csVars, bgVars, matchVars, extractVars, companyVars>>

\* the provider answers the pending request of run r
LLMReply(r, reply) ==
    /\ runs[r].pc \in {"pass1", "pass2", "cover"}
    /\ llmLog' = LET res == afterAnalyzeJD(reply)
                     opt == afterRewriteResume(runs[r].jdAnalysis, reply)
                 IN  CASE runs[r].pc = "pass1" /\ ~res.threw ->
                             Append(Answered(r, reply), rewriteResumeRequest(r, res.value))
                       [] runs[r].pc = "pass2" /\ ~opt.threw ->
                             Append(Answered(r, reply), coverLetterRequest(r, opt.value.resume))
                       [] OTHER -> Answered(r, reply)
    /\ CASE runs[r].pc = "pass1" ->
              LET res == afterAnalyzeJD(reply)
              IN  IF res.threw THEN FailRun(r, res.error)
                  ELSE /\ runs' = [runs EXCEPT ![r].pc = "pass2", ![r].jdAnalysis = res.value]
                       /\ UNCHANGED panel
         [] runs[r].pc = "pass2" ->
              LET opt == afterRewriteResume(runs[r].jdAnalysis, reply)
              IN  IF opt.threw THEN FailRun(r, opt.error)
                  ELSE /\ runs' = [runs EXCEPT ![r].pc = "cover", ![r].optimized = opt]
                       /\ panel' = [panel EXCEPT !.resume = opt.value.resume,
                                                 !.jdAnalysis = opt.value.jdAnalysis]
         [] runs[r].pc = "cover" ->
              LET letter == afterCoverLetter(reply)
              IN  IF letter.threw THEN FailRun(r, letter.error)
                  ELSE /\ runs' = [runs EXCEPT ![r].pc = "done"]
                       /\ panel' = [panel EXCEPT !.coverLetter = letter.value,
                                                 !.isLoading = FALSE]
    /\ UNCHANGED <<pageVars, formVars, csVars, bgVars, matchVars, extractVars, companyVars>>

\* the Detect button (disabled while isDetecting): detectFromPage up to its
\* first await; the closure holds the masterResume of this render
DetectStart ==
    /\ ~panel.isDetecting
    /\ panel' = [panel EXCEPT !.isDetecting = TRUE, !.error = Absent,
                              !.detectionStatus = "idle", !.matchResult = Absent,
                              !.detect = [pc |-> "page", masterResume |-> panel.masterResume,
                                          jd |-> <<>>]]
    /\ UNCHANGED <<runs, llmLog, pageVars, formVars, csVars, bgVars, matchVars, extractVars, companyVars>>

\* DETECT_JD is answered by the content script (or sendMessage rejects)
DetectPageReply(rejects) ==
    LET resp == DetectResponse(variant)
        found == [panel EXCEPT !.jobDescription = resp.data.jd,
                               !.jobTitle = resp.data.jobTitle,
                               !.company = resp.data.company,
                               !.detectionStatus = "success"]
    IN  /\ panel.detect.pc = "page"
        /\ panel' =
             IF rejects \/ ~resp.success \/ resp.data.jd = <<>>
             THEN [panel EXCEPT !.detectionStatus = "error",
                                !.error = IF rejects
                                          THEN Err("Cannot access this page. Try a job posting page.")
                                          ELSE Err("Could not detect job description on this page"),
                                !.isDetecting = FALSE, !.detect = NoDetect]
             ELSE IF panel.detect.masterResume # Absent
             THEN [found EXCEPT !.matchResult = MatchOf(panel.detect.masterResume, resp.data.jd),
                                !.isDetecting = FALSE, !.detect = NoDetect]
             ELSE [found EXCEPT !.detect.pc = "config", !.detect.jd = resp.data.jd]
        /\ UNCHANGED <<runs, llmLog, pageVars, formVars, csVars, bgVars, matchVars, extractVars, companyVars>>

\* chrome.tabs.query settles without a tab that has an id: the throw of
\* detectFromPage's first lines goes to its catch and finally
DetectNoTab ==
    /\ panel.detect.pc = "page"
    /\ panel' = [panel EXCEPT !.detectionStatus = "error", !.error = Err("No active tab"),
                              !.isDetecting = FALSE, !.detect = NoDetect]
    /\ UNCHANGED <<runs, llmLog, pageVars, formVars, csVars, bgVars, matchVars, extractVars, companyVars>>

\* detectFromPage's GET_CONFIG is answered
DetectConfigReply(rejects) ==
    LET resp == BgResponse(Message("GET_CONFIG", NoData), storage, rejects)[1]
    IN  /\ panel.detect.pc = "config"
        /\ panel' =
             IF resp.success /\ resp.data.hasResume
             THEN [panel EXCEPT !.masterResume = ParsedResume,
                                !.matchResult = MatchOf(ParsedResume, panel.detect.jd),
                                !.isDetecting = FALSE, !.detect = NoDetect]
             ELSE [panel EXCEPT !.isDetecting = FALSE, !.detect = NoDetect]
        /\ UNCHANGED <<runs, llmLog, pageVars, formVars, csVars, bgVars, matchVars, extractVars, companyVars>>

\* the user types into the job description box
EditJobDescription(text) ==
    /\ panel' = [panel EXCEPT !.jobDescription = text, !.matchResult = Absent]
    /\ UNCHANGED <<runs, llmLog, pageVars, formVars, csVars, bgVars, matchVars, extractVars, companyVars>>

\* the user types into the job title or the company box
EditField(field, value) ==
    /\ panel' = [panel EXCEPT ![field] = value]
    /\ UNCHANGED <<runs, llmLog, pageVars, formVars, csVars, bgVars, matchVars, extractVars, companyVars>>

(***************************************************************************)
(* SpecGen: the side panel with user actions and generation runs           *)
(***************************************************************************)
GoodConfig == [provider |-> "groq", hasKey |-> TRUE, hasResume |-> TRUE]

TypedJD == Words(80)

Pass1Replies(r) ==
    {Rejects,
     Resolve(<<Piece("json", r)>>),
     Resolve(<<Piece("text", 0), Piece("fence", 0), Piece("json", r), Piece("fence", 0)>>),
     Resolve(<<Piece("text", 0)>>)}
Pass2Replies(r) == {Rejects, Resolve(<<Seg("s", 2), Seg("w", 400 + r)>>)}
CoverReplies(r) == {Rejects, Resolve(<<Seg("w", 200 + r), Seg("s", 1)>>)}

RepliesFor(r) ==
    CASE runs[r].pc = "pass1" -> Pass1Replies(r)
      [] runs[r].pc = "pass2" -> Pass2Replies(r)
      [] OTHER -> CoverReplies(r)

InitGen ==
    /\ scripts = <<>>
    /\ metaTags = NoMeta
    /\ selectorHits = <<Words(300)>>
    /\ paragraphs = <<>>
    /\ titleHits = <<TitleEl>>
    /\ companyHits = <<>>
    /\ pageTitle = PageTitle
    /\ NoForm /\ ContentIdle
    /\ storage \in {GoodConfig, [GoodConfig EXCEPT !.hasKey = FALSE],
                    [GoodConfig EXCEPT !.hasResume = FALSE]}
    /\ bgHandled = <<>>
    /\ panel = FreshPanel
    /\ runs = <<>>
    /\ llmLog = <<>>
    /\ MatcherIdle

\* the generation runs alone: the three boxes are filled in and the user
\* only presses the two buttons that call handleGenerate
InitRuns ==
    /\ BlankPage /\ NoForm /\ ContentIdle
    /\ storage \in {GoodConfig, [GoodConfig EXCEPT !.hasKey = FALSE],
                    [GoodConfig EXCEPT !.hasResume = FALSE]}
    /\ bgHandled = <<>>
    /\ panel \in {[FreshPanel EXCEPT !.jobDescription = TypedJD, !.jobTitle = "Engineer",
                                     !.company = c] : c \in {"", "Acme"}}
    /\ runs = <<>>
    /\ llmLog = <<>>
    /\ MatcherIdle

NextRuns ==
    \/ ClickGenerate
    \/ ClickApply
    \/ \E r \in DOMAIN runs, rejects \in BOOLEAN :
          ProviderConfigReply(r, rejects) \/ ConfigReply(r, rejects)
    \/ \E r \in DOMAIN runs : \E reply \in RepliesFor(r) : LLMReply(r, reply)

SpecRuns == InitRuns /\ [][NextRuns]_vars

NextGen ==
    \/ ClickGenerate
    \/ ClickApply
    \/ \E r \in DOMAIN runs, rejects \in BOOLEAN :
          ProviderConfigReply(r, rejects) \/ ConfigReply(r, rejects)
    \/ \E r \in DOMAIN runs : \E reply \in RepliesFor(r) : LLMReply(r, reply)
    \/ DetectStart
    \/ \E rejects \in BOOLEAN : DetectPageReply(rejects) \/ DetectConfigReply(rejects)
    \/ EditJobDescription(TypedJD)
    \/ EditField("jobTitle", "Engineer")
    \/ EditField("company", "Acme")

SpecGen == InitGen /\ [][NextGen]_vars

\* the requests of run r in the order they were issued
RequestsOf(r) == SelectSeq(llmLog, LAMBDA e : e.run = r)

PassOrder == <<"analyzeJD", "rewriteResume", "coverLetter">>

\* C3: within one run the requests are issued in the order Pass 1, Pass 2,
\* cover letter, each only after the one before it has returned
\* successfully; Pass 2 carries the analysis parsed from Pass 1's reply and
\* the cover-letter request carries the resume of Pass 2's reply
C3_PassesInOrder ==
    \A r \in DOMAIN runs :
       LET E == RequestsOf(r)
       IN  /\ Len(E) <= 3
           /\ \A k \in DOMAIN E : E[k].pass = PassOrder[k]
           /\ \A k \in DOMAIN E : k < Len(E) => E[k].state = "returned"
           /\ Len(E) >= 2 =>
                 /\ ~parseJsonResponse(E[1].reply.content).threw
                 /\ E[2].arg = parseJsonResponse(E[1].reply.content).value
                 /\ E[2].arg.analysis = r
           /\ Len(E) >= 3 => E[3].arg = Trim(E[2].reply.content)

\* a run whose three requests have all returned, Pass 1 with a fenced reply
C3_Witness ==
    \E r \in DOMAIN runs :
       /\ runs[r].pc = "done"
       /\ Len(RequestsOf(r)) = 3
       /\ Len(RequestsOf(r)[1].reply.content) = 4
       /\ \A k \in 1..3 : RequestsOf(r)[k].state = "returned"

\* C4: optimize returns both a resume and an analysis or rejects; after a
\* failed Pass 1 call or parse it rejects with that error and no Pass 2
\* request exists; after a failed Pass 2 call it rejects
C4_OptimizeAllOrNothing ==
    \A r \in DOMAIN runs :
       LET E == RequestsOf(r)
           o == runs[r].optimized
           parsed == parseJsonResponse(E[1].reply.content)
       IN  /\ (o # NotRun /\ ~o.threw) =>
                 /\ DOMAIN o.value = {"resume", "jdAnalysis"}
                 /\ o.value.resume = Trim(E[2].reply.content)
                 /\ o.value.jdAnalysis = parsed.value
                 /\ E[1].state = "returned" /\ E[2].state = "returned"
           /\ (Len(E) >= 1 /\ E[1].state = "failed") =>
                 /\ Len(E) = 1
                 /\ o # NotRun /\ o.threw /\ o.error = "provider error"
           /\ (Len(E) >= 1 /\ E[1].state = "returned" /\ parsed.threw) =>
                 /\ Len(E) = 1
                 /\ o # NotRun /\ o.threw /\ o.error = parsed.error
           /\ (Len(E) >= 2 /\ E[2].state = "failed") =>
                 /\ o # NotRun /\ o.threw /\ o.error = "provider error"
           /\ (o # NotRun /\ o.threw) => Len(E) <= 2

\* one run rejected by the Pass 1 parse, another by the Pass 2 call
C4_Witness ==
    \E r, q \in DOMAIN runs :
       /\ RequestsOf(r) # <<>> /\ RequestsOf(r)[1].state = "returned"
       /\ runs[r].optimized # NotRun /\ runs[r].optimized.threw
       /\ Len(RequestsOf(r)) = 1
       /\ Len(RequestsOf(q)) = 2 /\ RequestsOf(q)[2].state = "failed"

\* C5 as stated: when a run fails at an LLM step, the panel's resume and
\* cover letter are those from before the run started and an error is set
C5_FailedRunLeavesResults ==
    [][\A r \in DOMAIN runs :
          (runs[r].pc \in {"pass1", "pass2", "cover"} /\ runs'[r].pc = "failed") =>
             /\ panel'.resume = runs[r].before.resume
             /\ panel'.coverLetter = runs[r].before.coverLetter
             /\ panel'.error # Absent]_vars

\* C6 as stated: at most one request of the pipeline is pending
C6_OneRequestInFlight ==
    Cardinality({i \in DOMAIN llmLog : llmLog[i].state = "pending"}) <= 1

(***************************************************************************)
(* IEEE-754 double arithmetic for the score.  A positive double is         *)
(* [m, x]: m its 53-bit significand (2^52 <= m < 2^53) and x the binary    *)
(* exponent of its leading bit, so its value is m * 2^(x - 52).            *)
(* Significands are numbers of five 15-bit limbs, most significant first.  *)
(***************************************************************************)
Limb  == 32768
Limbs == 5

\* n * k + c for a five-limb number n and small k, c (the result fits)
RECURSIVE MulAddFrom(_, _, _, _)
MulAddFrom(n, k, i, carry) ==
    IF i = 0 THEN <<>>
    ELSE LET cur == n[i] * k + carry
         IN  MulAddFrom(n, k, i - 1, cur \div Limb) \o <<cur % Limb>>

MulAdd(n, k, c) == MulAddFrom(n, k, Limbs, c)

\* n divided by a small d: quotient and remainder
RECURSIVE DivFrom(_, _, _, _)
DivFrom(n, d, i, rem) ==
    IF i > Limbs THEN [q |-> <<>>, rem |-> rem]
    ELSE LET cur  == rem * Limb + n[i]
             rest == DivFrom(n, d, i + 1, cur % d)
         IN  [q |-> <<cur \div d>> \o rest.q, rem |-> rest.rem]

DivSmall(n, d) == DivFrom(n, d, 1, 0)

RECURSIVE Pow2(_)
Pow2(n) == IF n = 0 THEN 1 ELSE 2 * Pow2(n - 1)

\* 2^53 <= n, for n below 2^60 (bit 53 is bit 8 of the second limb)
AtLeast2To53(n) == n[1] > 0 \/ n[2] >= Pow2(8)

\* round to nearest, ties to even: n is the significand followed by one
\* guard bit (2^53 <= n < 2^54), sticky tells whether more follows
RoundToNearestEven(n, x, sticky) ==
    LET half == DivSmall(n, 2)
        up   == half.rem = 1 /\ (sticky \/ half.q[Limbs] % 2 = 1)
        sum  == MulAdd(half.q, 1, 1)
    IN  IF ~up THEN [m |-> half.q, x |-> x]
        ELSE IF AtLeast2To53(sum) THEN [m |-> DivSmall(sum, 2).q, x |-> x + 1]
        ELSE [m |-> sum, x |-> x]

\* the number of doublings that bring a up to at least b (0 < a <= b)
RECURSIVE ShiftsTo(_, _)
ShiftsTo(a, b) == IF a >= b THEN 0 ELSE 1 + ShiftsTo(2 * a, b)

\* a / b in double arithmetic, for integers 0 < a <= b < 2^14:
\* a * 2^e * 2^53 = (a * 2^e * 2^8) * 2^45 divided by b
Divide(a, b) ==
    LET e   == ShiftsTo(a, b)
        top == a * Pow2(e) * Pow2(8)
        q   == DivSmall(<<top \div Limb, top % Limb, 0, 0, 0>>, b)
    IN  RoundToNearestEven(q.q, 0 - e, q.rem # 0)

\* y * 100 in double arithmetic: the product has 59 or 60 bits
Times100(y) ==
    LET p == MulAdd(y.m, 100, 0)
        s == IF AtLeast2To53(DivSmall(p, Pow2(6)).q) THEN 7 ELSE 6
        q == DivSmall(p, Pow2(s - 1))
    IN  RoundToNearestEven(q.q, y.x + s, q.rem # 0)

\* Math.round of a positive double below 2^7: floor(y + 1/2), from
\* floor(2y) = m div 2^(51 - x) = (m div 2^45) div 2^(6 - x)
MathRound(y) ==
    IF y.x < 0 - 8 THEN 0
    ELSE LET twice == (y.m[1] * Limb + y.m[2]) \div Pow2(6 - y.x)
         IN  (twice + 1) \div 2

(***************************************************************************)
(* Skill matcher.  A text is a sequence of runs [tok, n]: n consecutive    *)
(* occurrences of one word, tok being a skill name (lower case), one of    *)
(* the four requirement introducers, "." or "word" (any other word).       *)
(* A skill name is compared through its parts, e.g. "javascript" is        *)
(* <<"java", "script">>, so that String.includes is decided as a           *)
(* substring test.                                                         *)
(***************************************************************************)
Run(tok, n) == [tok |-> tok, n |-> n]

\* skillPatterns: the skills of the model, by pattern (1 languages,
\* 2 frameworks, 3 databases, 4 cloud, 5 tools, 6 concepts, 7 data/ML)
SkillGroup ==
    [python |-> 1, rust |-> 1, kotlin |-> 1, java |-> 1, javascript |-> 1,
     react |-> 2, django |-> 2, redis |-> 3, sql |-> 3, postgresql |-> 3,
     aws |-> 4, docker |-> 4, jenkins |-> 5, figma |-> 5, graphql |-> 6,
     scrum |-> 6, pandas |-> 7,
     typescript |-> 1, ruby |-> 1, php |-> 1, swift |-> 1, scala |-> 1,
     angular |-> 2, flask |-> 2, fastapi |-> 2, spring |-> 2, mongodb |-> 3,
     elasticsearch |-> 3, dynamodb |-> 3, cassandra |-> 3, oracle |-> 3,
     azure |-> 4, gcp |-> 4, terraform |-> 4, lambda |-> 4, ec2 |-> 4,
     s3 |-> 4, circleci |-> 5, travis |-> 5, jira |-> 5, confluence |-> 5,
     slack |-> 5, grpc |-> 6, microservices |-> 6, devops |-> 6, agile |-> 6,
     tdd |-> 6, bdd |-> 6, nlp |-> 7, tensorflow |-> 7, pytorch |-> 7,
     numpy |-> 7, hadoop |-> 7]

Skills == DOMAIN SkillGroup

Parts(skill) ==
    CASE skill = "javascript" -> <<"java", "script">>
      [] skill = "postgresql" -> <<"postgre", "sql">>
      [] OTHER -> <<skill>>

\* a.includes(b)
Includes(a, b) ==
    LET pa == Parts(a)
        pb == Parts(b)
    IN  \E i \in 0..(Len(pa) - Len(pb)) : SubSeq(pa, i + 1, i + Len(pb)) = pb

Introducers == <<"required", "must have", "essential", "mandatory">>

\* the skills of a text in order of first occurrence
RECURSIVE FirstOccurrences(_, _, _)
FirstOccurrences(text, i, seen) ==
    IF i > Len(text) THEN <<>>
    ELSE IF text[i].tok \in Skills \ seen
    THEN <<text[i].tok>> \o FirstOccurrences(text, i + 1, seen \cup {text[i].tok})
    ELSE FirstOccurrences(text, i + 1, seen)

\* extractSkillsFromText: pattern by pattern, each in text order
RECURSIVE extractSkillsFrom(_, _)
extractSkillsFrom(text, g) ==
    IF g > 7 THEN <<>>
    ELSE SelectSeq(FirstOccurrences(text, 1, {}), LAMBDA k : SkillGroup[k] = g)
         \o extractSkillsFrom(text, g + 1)

extractSkillsFromText(text) == extractSkillsFrom(text, 1)

\* text.match(/\bskill\b/gi).length
RECURSIVE Occurrences(_, _, _)
Occurrences(text, skill, i) ==
    IF i > Len(text) THEN 0
    ELSE (IF text[i].tok = skill THEN text[i].n ELSE 0) + Occurrences(text, skill, i + 1)

\* jdText.matchAll(/intro:?\s*([^.]+)/gi): the skill sets of the captures.
\* open: inside a capture; some: the capture is not empty; cur: its skills
RECURSIVE Captures(_, _, _, _, _, _)
Captures(text, intro, i, open, some, cur) ==
    IF i > Len(text) THEN (IF open /\ some THEN <<cur>> ELSE <<>>)
    ELSE LET run == text[i]
         IN  IF run.tok = "."
             THEN (IF open /\ some THEN <<cur>> ELSE <<>>)
                  \o Captures(text, intro, i + 1, FALSE, FALSE, {})
             ELSE IF open
             THEN Captures(text, intro, i + 1, TRUE, TRUE,
                           IF run.tok \in Skills THEN cur \cup {run.tok} ELSE cur)
             ELSE IF run.tok = intro
             THEN Captures(text, intro, i + 1, TRUE, run.n > 1, {})
             ELSE Captures(text, intro, i + 1, FALSE, FALSE, {})

\* how many captures of the four requirement patterns hold the skill
Boosts(text, skill) ==
    LET caps == Captures(text, Introducers[1], 1, FALSE, FALSE, {})
                \o Captures(text, Introducers[2], 1, FALSE, FALSE, {})
                \o Captures(text, Introducers[3], 1, FALSE, FALSE, {})
                \o Captures(text, Introducers[4], 1, FALSE, FALSE, {})
    IN  Cardinality({j \in DOMAIN caps : skill \in caps[j]})

\* extractJDSkills: the Map as its entries in insertion order
extractJDSkills(jdText) ==
    LET found == extractSkillsFromText(jdText)
    IN  [j \in DOMAIN found |->
            [skill |-> found[j],
             mentions |-> Occurrences(jdText, found[j], 1) + 3 * Boosts(jdText, found[j])]]

\* extractResumeSkills: the skills array and the skills found in bullets
extractResumeSkills(resume) ==
    resume.skills \cup Range(extractSkillsFromText(resume.bullets))

SortByMentions_Unsorted(entries) == entries

SortByMentions_DropFirst(entries) == IF entries = <<>> THEN entries ELSE Tail(entries)

\* sortedJDSkills: a stable sort by mention count, largest first
RECURSIVE SortByMentions(_)
SortByMentions(entries) ==
    IF entries = <<>> THEN <<>>
    ELSE LET i == MinOf({j \in DOMAIN entries :
                            \A k \in DOMAIN entries : entries[k].mentions <= entries[j].mentions})
         IN  <<entries[i]>>
             \o SortByMentions(SubSeq(entries, 1, i - 1) \o SubSeq(entries, i + 1, Len(entries)))

Acronyms == {"api", "aws", "gcp", "sql", "css", "html", "ci", "cd", "ai", "ml"}

capitalizeSkill(skill) ==
    [style |-> IF skill \in Acronyms THEN "upper" ELSE "title", of |-> skill]

\* the related table of getSuggestion, for the skills of the model
Related(skill) ==
    CASE skill = "python"     -> <<"django", "flask", "fastapi">>
      [] skill = "javascript" -> <<"typescript", "node", "react", "vue", "angular">>
      [] skill = "react"      -> <<"javascript", "typescript", "next.js", "redux">>
      [] skill = "aws"        -> <<"cloud", "azure", "gcp", "docker", "kubernetes">>
      [] skill = "postgresql" -> <<"sql", "mysql", "database">>
      [] OTHER -> <<>>

getSuggestion(skill, resumeSkills) ==
    LET related == Related(skill)
        hits == {j \in DOMAIN related : \E rs \in resumeSkills : Includes(rs, related[j])}
    IN  IF hits = {} THEN Absent ELSE [transferable |-> related[MinOf(hits)]]

\* the test of the loop: the resume has this skill or a similar one
hasSkill(resumeSkills, skill) ==
    skill \in resumeSkills
    \/ \E rs \in resumeSkills : Includes(rs, skill) \/ Includes(skill, rs)

weightOf_Uncapped(mentions) == mentions


\* Math.min(mentions, 5)
weightOf(mentions) == Min2(mentions, 5)

\* Math.round((matchedWeight / totalWeight) * 100), or 0
overallScoreOf(matchedWeight, totalWeight) ==
    IF totalWeight > 0
    THEN IF matchedWeight = 0 THEN 0
         ELSE MathRound(Times100(Divide(matchedWeight, totalWeight)))
    ELSE 0

summaryOf_Strict(overallScore) ==
    IF overallScore > 80 THEN "Excellent match"
    ELSE IF overallScore > 60 THEN "Good match"
    ELSE IF overallScore > 40 THEN "Moderate match"
    ELSE "Lower match"

\* MatchScoreCard: the classes of the score badge
getScoreColor(score) ==
    IF score >= 80 THEN "text-green-600"
    ELSE IF score >= 60 THEN "text-blue-600"
    ELSE IF score >= 40 THEN "text-yellow-600"
    ELSE "text-red-600"

getScoreBackground(score) ==
    IF score >= 80 THEN "bg-green-100"
    ELSE IF score >= 60 THEN "bg-blue-100"
    ELSE IF score >= 40 THEN "bg-yellow-100"
    ELSE "bg-red-100"

\* MatchScoreCard: the class of the progress bar
progressBarColor(overallScore) ==
    IF overallScore >= 80 THEN "bg-green-500"
    ELSE IF overallScore >= 60 THEN "bg-blue-500"
    ELSE IF overallScore >= 40 THEN "bg-yellow-500"
    ELSE "bg-red-500"

summaryOf(overallScore) ==
    IF overallScore >= 80 THEN "Excellent match"
    ELSE IF overallScore >= 60 THEN "Good match"
    ELSE IF overallScore >= 40 THEN "Moderate match"
    ELSE "Lower match"

priorityOf_Shifted(mentions) ==
    IF mentions >= 4 THEN "required" ELSE IF mentions >= 3 THEN "preferred" ELSE "nice_to_have"

\* the confidence of a matched skill and the priority of a missing one
confidenceOf(mentions) ==
    IF mentions >= 3 THEN "high" ELSE IF mentions >= 2 THEN "medium" ELSE "low"

priorityOf(mentions) ==
    IF mentions >= 3 THEN "required" ELSE IF mentions >= 2 THEN "preferred" ELSE "nice_to_have"

calculateMatch(resume, jdText) ==
    LET resumeSkills == extractResumeSkills(resume)
        sorted  == SortByMentions(extractJDSkills(jdText))
        has(e)  == hasSkill(resumeSkills, e.skill)
        matched == SelectSeq(sorted, has)
        missing == SelectSeq(sorted, LAMBDA e : ~has(e))
        totalWeight   == SumSeq([j \in DOMAIN sorted |-> weightOf(sorted[j].mentions)])
        matchedWeight == SumSeq([j \in DOMAIN matched |-> weightOf(matched[j].mentions)])
        overallScore  == overallScoreOf(matchedWeight, totalWeight)
        matchedSkills ==
            [j \in DOMAIN matched |->
                [skill |-> capitalizeSkill(matched[j].skill), source |-> "resume",
                 confidence |-> confidenceOf(matched[j].mentions)]]
        missingSkills ==
            [j \in DOMAIN missing |->
                [skill |-> capitalizeSkill(missing[j].skill),
                 priority |-> priorityOf(missing[j].mentions),
                 mentions |-> missing[j].mentions,
                 suggestion |-> getSuggestion(missing[j].skill, resumeSkills)]]
        requiredMissing == SelectSeq(missingSkills, LAMBDA g : g.priority = "required")
        highMatches     == SelectSeq(matchedSkills, LAMBDA m : m.confidence = "high")
    IN  [overallScore |-> overallScore,
         matchedSkills |-> matchedSkills,
         missingSkills |-> SubSeq(missingSkills, 1, Min2(10, Len(missingSkills))),
         recommendations |->
            (IF requiredMissing # <<>>
             THEN <<[kind |-> "gap",
                     skills |-> SubSeq(requiredMissing, 1, Min2(3, Len(requiredMissing)))]>>
             ELSE <<>>)
            \o (IF highMatches # <<>>
                THEN <<[kind |-> "highlight",
                        skills |-> SubSeq(highMatches, 1, Min2(3, Len(highMatches)))]>>
                ELSE <<>>),
         summary |-> summaryOf(overallScore)]

(***************************************************************************)
(* SpecMatch: calculateMatch on bounded resumes and job texts              *)
(***************************************************************************)
MaxJDRuns == 2
MaxFives  == 7

\* short job texts: every sequence of at most MaxJDRuns runs
ShortRuns ==
    {Run(tok, n) : tok \in {"java", "javascript", "sql", "required", ".", "word"},
                   n \in {1, 3}}
ShortJDs == SeqsUpTo(ShortRuns, MaxJDRuns)
ShortResumes ==
    {[skills |-> sk, bullets |-> b] :
        sk \in SUBSET {"java", "postgresql"}, b \in {<<>>, <<Run("javascript", 1)>>}}

\* long job texts: k skills named five times each, one named a times and
\* one named b times; the resume lists the first j of the k and maybe the
\* one named a times
Fives == <<"python", "rust", "kotlin", "react", "django", "redis", "aws", "docker",
           "jenkins", "scrum", "pandas">>
LongJD(k, a, b) ==
    [j \in 1..k |-> Run(Fives[j], 5)]
    \o (IF a > 0 THEN <<Run("graphql", a)>> ELSE <<>>)
    \o (IF b > 0 THEN <<Run("figma", b)>> ELSE <<>>)
LongInputs ==
    {[resume |-> [skills |-> {Fives[i] : i \in 1..j} \cup extra, bullets |-> <<>>],
      jd |-> LongJD(k, a, b)] :
        k \in {MaxFives - 1, MaxFives}, j \in 3..5, a \in 0..3, b \in 0..2,
        extra \in {{}, {"graphql"}}}

\* wide job texts: n skills, the p-th named once and the j-th otherwise
\* ((j * p) % 3) + 2 times, after an optional requirement sentence; the
\* resume lists few of them
MaxWide == 12
WideSkills == Fives \o <<"graphql", "figma">>
WideJD(n, p, lead) == lead \o [j \in 1..n |-> Run(WideSkills[j], IF j = p THEN 1 ELSE ((j * p) % 3) + 2)]
WideInputs ==
    {[resume |-> [skills |-> sk, bullets |-> <<>>], jd |-> WideJD(n, p, lead)] :
        n \in {MaxWide - 2, MaxWide - 1, MaxWide}, p \in 1..3,
        lead \in {<<>>, <<Run("required", 1), Run("scrum", 1), Run(".", 1)>>},
        sk \in {{}, {"rust"}, {"python", "jenkins"}}}

\* requirement texts: one or two sentences, each an introducer (one or two
\* of them, or a plain word) followed by a skill and a full stop
ReqSentences ==
    {<<Run(intro, 1), Run(skill, 1), Run(".", 1)>> :
        intro \in Range(Introducers) \cup {"word"}, skill \in {"java", "sql"}}
    \cup {<<Run("required", 1), Run("must have", 1), Run("java", 1), Run(".", 1)>>}
ReqJDs == ReqSentences \cup {a \o b : a \in ReqSentences, b \in ReqSentences}
ReqInputs == {[resume |-> [skills |-> {}, bullets |-> <<>>], jd |-> jd] : jd \in ReqJDs}

\* five skills named once each, the resume listing the first j of them
BandInputs ==
    {[resume |-> [skills |-> {Fives[i] : i \in 1..j}, bullets |-> <<>>],
      jd |-> [i \in 1..5 |-> Run(Fives[i], 1)]] : j \in 0..5}

\* many job skills: k skills named five times each, all on the resume, and
\* figma, named once, that the resume lacks
MaxMany == 40
PlainSkills ==
    Fives \o <<"graphql", "typescript", "ruby", "php", "swift", "scala", "angular", "flask",
               "fastapi", "spring", "mongodb", "elasticsearch", "dynamodb", "cassandra",
               "oracle", "azure", "gcp", "terraform", "lambda", "ec2", "s3", "circleci",
               "travis", "jira", "confluence", "slack", "grpc", "microservices", "devops",
               "agile", "tdd", "bdd", "nlp", "tensorflow", "pytorch", "numpy", "hadoop">>
ManyInputs ==
    {[resume |-> [skills |-> {PlainSkills[j] : j \in 1..k}, bullets |-> <<>>],
      jd |-> [j \in 1..k |-> Run(PlainSkills[j], 5)] \o <<Run("figma", 1)>>] :
        k \in {MaxMany - 1, MaxMany}}

InitMatch ==
    /\ BlankPage /\ NoForm /\ ContentIdle /\ BackgroundIdle /\ PanelIdle
    /\ mInput \in {[resume |-> r, jd |-> jd] : r \in ShortResumes, jd \in ShortJDs}
                  \cup LongInputs \cup WideInputs \cup ReqInputs \cup BandInputs
                  \cup ManyInputs
    /\ mResult = NotRun
    /\ ExtractorIdle /\ CompaniesIdle

\* calculateMatch is called
Calculate ==
    /\ mResult = NotRun
    /\ mResult' = calculateMatch(mInput.resume, mInput.jd)
    /\ UNCHANGED <<mInput, pageVars, formVars, csVars, bgVars, panelVars, extractVars, companyVars>>

NextMatch == Calculate

SpecMatch == InitMatch /\ [][NextMatch]_vars

\* the weights of the claim, from the mention counts
JobWeight(resume, jd, onlyMatched) ==
    LET entries == extractJDSkills(jd)
    IN  SumSeq([j \in DOMAIN entries |->
                  IF onlyMatched /\ ~hasSkill(extractResumeSkills(resume), entries[j].skill)
                  THEN 0 ELSE Min2(entries[j].mentions, 5)])

\* round(100 * a / b) for 0 <= a <= b, 0 < b
RoundedPercent(a, b) == (200 * a + b) \div (2 * b)

\* C7 as stated: overallScore is an integer in 0..100 equal to
\* round(100 * matchedWeight / totalWeight), each job skill weighing
\* min(mentions, 5), and 0 when the job text has no recognised skill
C7_ScoreIsRoundedRatio ==
    mResult # NotRun =>
       LET total   == JobWeight(mInput.resume, mInput.jd, FALSE)
           matched == JobWeight(mInput.resume, mInput.jd, TRUE)
       IN  /\ mResult.overallScore \in 0..100
           /\ extractJDSkills(mInput.jd) = <<>> => mResult.overallScore = 0
           /\ total > 0 => mResult.overallScore = RoundedPercent(matched, total)

\* what does hold: the score is an integer in 0..100, 0 without
\* recognised skills, and within one of the rounded ratio
ScoreWithinOneOfRatio ==
    mResult # NotRun =>
       LET total   == JobWeight(mInput.resume, mInput.jd, FALSE)
           matched == JobWeight(mInput.resume, mInput.jd, TRUE)
       IN  /\ mResult.overallScore \in 0..100
           /\ extractJDSkills(mInput.jd) = <<>> => mResult.overallScore = 0
           /\ total > 0 => RoundedPercent(matched, total) - mResult.overallScore \in {0, 1}

(***************************************************************************)
(* LLM job extractor: parseLLMResponse, preparePageContentForLLM           *)
(*                                                                         *)
(* A JavaScript value is [t, s, items, fields]: t its type, s the text of  *)
(* a string or number, items of an array, fields of an object.  A text may *)
(* hold segments of kind "d" (a comma or semicolon) and "p" (a full stop). *)
(* A response is a sequence of pieces [k, v]: "json" (the text of one JSON *)
(* value v; of an object it starts with { and ends with }), "text" (prose  *)
(* without braces, fences or white space at its ends), "ws" (white space), *)
(* "fence" (three backticks), "lang" (the word json), "open" and "close"   *)
(* (a stray brace).                                                        *)
(***************************************************************************)
NoFields == [kind |-> "none"]
JUndefined  == [t |-> "undefined", s |-> <<>>, items |-> <<>>, fields |-> NoFields]
JNull       == [t |-> "null", s |-> <<>>, items |-> <<>>, fields |-> NoFields]
JStr(s)     == [t |-> "string", s |-> s, items |-> <<>>, fields |-> NoFields]
JNum(n)     == [t |-> "number", s |-> <<Seg("w", n)>>, items |-> <<>>, fields |-> NoFields]
JArr(items) == [t |-> "array", s |-> <<>>, items |-> items, fields |-> NoFields]
JObj(fields) == [t |-> "object", s |-> <<>>, items |-> <<>>, fields |-> fields]

\* parsed.key: undefined on a missing key and on a value that is no object;
\* a TypeError on null, which the caller sees as threw
Get(parsed, key) ==
    IF parsed.t = "object" /\ key \in DOMAIN parsed.fields THEN parsed.fields[key]
    ELSE JUndefined

\* String(value) of a value that is neither a string nor null nor undefined
RECURSIVE Join(_, _)
Join(items, i) ==
    IF i > Len(items) THEN <<>>
    ELSE (IF i > 1 THEN <<Seg("d", 1)>> ELSE <<>>)
         \o (IF items[i].t \in {"string", "number"} THEN items[i].s ELSE <<>>)
         \o Join(items, i + 1)

StringOf(value) ==
    CASE value.t = "number" -> value.s
      [] value.t = "array"  -> Join(value.items, 1)
      [] OTHER              -> <<Seg("w", 7), Seg("s", 1), Seg("w", 7)>>

normalizeString(value) ==
    IF value.t = "string" THEN Trim(value.s)
    ELSE IF value.t \in {"null", "undefined"} THEN <<>>
    ELSE Trim(StringOf(value))

\* value.split(/[,;\n]/): cur is the piece being read
RECURSIVE Split(_, _, _)
Split(text, i, cur) ==
    IF i > Len(text) THEN <<cur>>
    ELSE IF text[i].k = "d"
    THEN <<cur>> \o [j \in 1..(text[i].n - 1) |-> <<>>] \o Split(text, i + 1, <<>>)
    ELSE Split(text, i + 1, Append(cur, text[i]))

NonEmpty(text) == text # <<>>

normalizeArray(value) ==
    IF value.t = "array"
    THEN SelectSeq([j \in DOMAIN value.items |-> normalizeString(value.items[j])], NonEmpty)
    ELSE IF value.t = "string" /\ Trim(value.s) # <<>>
    THEN LET parts == Split(value.s, 1, <<>>)
         IN  SelectSeq([j \in DOMAIN parts |-> Trim(parts[j])], NonEmpty)
    ELSE <<>>

RPiece(k) == [k |-> k, v |-> JUndefined]
JsonText(v) == [k |-> "json", v |-> v]

RECURSIVE StripWs(_)
StripWs(r) ==
    IF r = <<>> THEN r
    ELSE IF r[1].k = "ws" THEN StripWs(Tail(r))
    ELSE IF r[Len(r)].k = "ws" THEN StripWs(SubSeq(r, 1, Len(r) - 1))
    ELSE r

\* JSON.parse of a response text
JsonParseText(r) ==
    LET body == StripWs(r)
    IN  IF Len(body) = 1 /\ body[1].k = "json" THEN Returned(body[1].v)
        ELSE Threw("SyntaxError")

\* response.match(/```(?:json)?\s*([\s\S]*?)```/): the capture, or the
\* response itself without two fences
Unfenced(response) ==
    LET fences == {i \in DOMAIN response : response[i].k = "fence"}
    IN  IF Cardinality(fences) < 2 THEN response
        ELSE LET f1 == MinOf(fences)
                 f2 == MinOf(fences \ {f1})
                 from == IF f1 + 1 < f2 /\ response[f1 + 1].k = "lang" THEN f1 + 2 ELSE f1 + 1
             IN  SubSeq(response, from, f2 - 1)

HasOpen(p)  == p.k = "open" \/ (p.k = "json" /\ p.v.t = "object")
HasClose(p) == p.k = "close" \/ (p.k = "json" /\ p.v.t = "object")

\* jsonStr.match(/\{[\s\S]*\}/): from the first { to the last }
BraceSpan(jsonStr) ==
    LET opens  == {i \in DOMAIN jsonStr : HasOpen(jsonStr[i])}
        closes == {i \in DOMAIN jsonStr : HasClose(jsonStr[i])}
    IN  IF opens # {} /\ closes # {} /\ MinOf(opens) <= MaxOf(closes)
        THEN SubSeq(jsonStr, MinOf(opens), MaxOf(closes))
        ELSE jsonStr

NoExtraction == [kind |-> "null"]

OrUndefined(text) == IF text = <<>> THEN JUndefined ELSE JStr(text)

\* parseLLMResponse: null from the catch block
parseLLMResponse(response) ==
    LET parsed == JsonParseText(BraceSpan(Unfenced(response)))
    IN  IF parsed.threw \/ parsed.value.t = "null" THEN NoExtraction
        ELSE LET v == parsed.value
             IN  [title            |-> normalizeString(Get(v, "title")),
                  company          |-> normalizeString(Get(v, "company")),
                  description      |-> normalizeString(Get(v, "description")),
                  requirements     |-> normalizeArray(Get(v, "requirements")),
                  responsibilities |-> normalizeArray(Get(v, "responsibilities")),
                  skills           |-> normalizeArray(Get(v, "skills")),
                  location         |-> OrUndefined(normalizeString(Get(v, "location"))),
                  salary           |-> OrUndefined(normalizeString(Get(v, "salary"))),
                  experienceLevel  |-> OrUndefined(normalizeString(Get(v, "experienceLevel"))),
                  employmentType   |-> OrUndefined(normalizeString(Get(v, "employmentType")))]

\* text.slice(0, n)
RECURSIVE Slice(_, _)
Slice(text, n) ==
    IF n <= 0 \/ text = <<>> THEN <<>>
    ELSE IF Head(text).n >= n THEN <<Seg(Head(text).k, n)>>
    ELSE <<Head(text)>> \o Slice(Tail(text), n - Head(text).n)

\* text.lastIndexOf("."): -1 without a full stop
LastIndexOf(text, kind) ==
    LET at == {i \in DOMAIN text : text[i].k = kind}
    IN  IF at = {} THEN -1 ELSE Length(SubSeq(text, 1, MaxOf(at))) - 1

DefaultMaxChars == 8000
FallbackWindow == 500
Ellipsis == <<Seg("p", 3)>>

\* preparePageContentForLLM; the collapsed text holds no newline, so
\* lastIndexOf("\n") is -1
preparePageContentForLLM(bodyText, maxChars) ==
    LET cleaned == Trim(CollapseSpaces(bodyText))
    IN  IF Length(cleaned) > maxChars
        THEN LET truncated   == Slice(cleaned, maxChars)
                 lastPeriod  == LastIndexOf(truncated, "p")
                 lastNewline == -1
                 breakPoint  == Max2(Max2(lastPeriod, lastNewline), maxChars - FallbackWindow)
             IN  Slice(truncated, breakPoint + 1) \o Ellipsis
        ELSE cleaned

\* buildExtractionPrompt: what follows JOB_EXTRACTION_PROMPT
buildExtractionPrompt(pageContent) == Slice(pageContent, DefaultMaxChars)

(***************************************************************************)
(* SpecExtract: the extractor's functions on responses and page texts      *)
(***************************************************************************)
MaxPieces == 4
MaxPageSegs == 3

Padded(n) == <<Seg("s", 2), Seg("w", n), Seg("s", 1)>>

\* an object with every key: padded strings, a list with a blank string, a
\* number and null among its items, a list given as one delimited string
FullObject ==
    JObj([title |-> JStr(Padded(8)), company |-> JStr(<<Seg("w", 4)>>),
          description |-> JStr(<<Seg("w", 30), Seg("s", 3)>>),
          requirements |-> JArr(<<JStr(Padded(5)), JStr(<<Seg("s", 2)>>), JNum(1), JNull>>),
          responsibilities |-> JArr(<<>>),
          skills |-> JStr(<<Seg("w", 4), Seg("d", 2), Seg("s", 1), Seg("w", 3), Seg("d", 1)>>),
          location |-> JStr(<<Seg("s", 1)>>), salary |-> JNum(5),
          experienceLevel |-> JNull, employmentType |-> JStr(<<Seg("w", 9)>>)])
\* an object with few keys, none of the type asked for
SparseObject ==
    JObj([title |-> JNum(2), description |-> JArr(<<JStr(<<Seg("w", 3)>>), JNum(1)>>),
          skills |-> JNum(3), requirements |-> JStr(<<Seg("s", 4)>>)])

PieceChoices ==
    {JsonText(FullObject), JsonText(SparseObject), JsonText(JNull), JsonText(JNum(2)),
     RPiece("text"), RPiece("ws"), RPiece("fence"), RPiece("lang"), RPiece("open"),
     RPiece("close")}
Responses == SeqsUpTo(PieceChoices, MaxPieces)

PageSegs == {Seg("w", 99), Seg("w", 600), Seg("w", 7999), Seg("p", 1), Seg("s", 3)}
PageTexts == SeqsUpTo(PageSegs, MaxPageSegs)
Budgets == {100, 600, DefaultMaxChars}

InitExtract ==
    /\ BlankPage /\ NoForm /\ ContentIdle /\ BackgroundIdle /\ PanelIdle
    /\ mInput = NotRun /\ mResult = NotRun /\ CompaniesIdle
    /\ xResult = NotRun /\ xContent = NotRun /\ xPrompt = NotRun
    /\ \/ xResponse \in {[pieces |-> r] : r \in Responses} /\ xPage = NotRun
       \/ /\ xResponse = NotRun
          /\ xPage \in {[text |-> t, maxChars |-> m] : t \in PageTexts, m \in Budgets}

ParseResponse ==
    /\ xResponse # NotRun /\ xResult = NotRun
    /\ xResult' = parseLLMResponse(xResponse.pieces)
    /\ UNCHANGED <<xResponse, xPage, xContent, xPrompt>>
    /\ UNCHANGED <<pageVars, formVars, csVars, bgVars, panelVars, matchVars, companyVars>>

PreparePage ==
    /\ xPage # NotRun /\ xContent = NotRun
    /\ xContent' = [text |-> preparePageContentForLLM(xPage.text, xPage.maxChars)]
    /\ UNCHANGED <<xResponse, xResult, xPage, xPrompt>>
    /\ UNCHANGED <<pageVars, formVars, csVars, bgVars, panelVars, matchVars, companyVars>>

\* buildExtractionPrompt on the prepared content, or on the page text as is
BuildPrompt ==
    /\ xPage # NotRun /\ xPrompt = NotRun
    /\ \E pageContent \in {xPage.text} \cup {xContent.text : c \in {xContent} \ {NotRun}} :
          xPrompt' = [text |-> buildExtractionPrompt(pageContent)]
    /\ UNCHANGED <<xResponse, xResult, xPage, xContent>>
    /\ UNCHANGED <<pageVars, formVars, csVars, bgVars, panelVars, matchVars, companyVars>>

NextExtract == ParseResponse \/ PreparePage \/ BuildPrompt

SpecExtract == InitExtract /\ [][NextExtract]_vars

\* a text without white space at either end
Trimmed(text) == text = <<>> \/ (~IsSpace(text[1]) /\ ~IsSpace(text[Len(text)]))

\* the text handed to JSON.parse
Candidate == BraceSpan(Unfenced(xResponse.pieces))

\* C15: parseLLMResponse returns null when JSON.parse yields no value, and
\* otherwise a record whose title, company and description are trimmed
\* strings and whose requirements, responsibilities and skills are lists of
\* non-empty trimmed strings
C15_TotalAndNormalised ==
    xResult # NotRun =>
       /\ (xResult = NoExtraction) <=> JsonParseText(Candidate).threw
       /\ xResult # NoExtraction =>
             /\ \A f \in {"title", "company", "description"} : Trimmed(xResult[f])
             /\ \A f \in {"requirements", "responsibilities", "skills"} :
                   \A j \in DOMAIN xResult[f] :
                      xResult[f][j] # <<>> /\ Trimmed(xResult[f][j])

\* the places of the JSON objects of the response
ObjectsAt ==
    {i \in DOMAIN xResponse.pieces :
        xResponse.pieces[i].k = "json" /\ xResponse.pieces[i].v.t = "object"}

\* C16: a response without fences that holds a JSON object, with no brace
\* before it and any text after it, is parsed, and the result is that of
\* its first object
C16_FirstObjectParsed ==
    (/\ xResult # NotRun
     /\ ObjectsAt # {}
     /\ \A i \in DOMAIN xResponse.pieces :
           /\ xResponse.pieces[i].k # "fence"
           /\ i < MinOf(ObjectsAt) => xResponse.pieces[i].k \notin {"open", "close"})
    => xResult = parseLLMResponse(<<xResponse.pieces[MinOf(ObjectsAt)]>>)

\* C17: the prepared content fits the budget, and the job-content section
\* of the prompt has at most 8000 characters
C17_WithinBudget ==
    /\ xContent # NotRun => Length(xContent.text) <= xPage.maxChars
    /\ xPrompt # NotRun => Length(xPrompt.text) <= 8000

\* the job skills the resume lacks, with their mention counts
Unmatched ==
    {e \in Range(extractJDSkills(mInput.jd)) :
        ~hasSkill(extractResumeSkills(mInput.resume), e.skill)}

\* C11: missingSkills holds min(10, number of unmatched skills) distinct
\* unmatched skills with their mention counts, in non-increasing order of
\* mentions, and no unmatched skill left out has more mentions than one
\* that is listed
C11_TopTenMissing ==
    mResult # NotRun =>
       LET ms == mResult.missingSkills
           listed == {[skill |-> ms[j].skill.of, mentions |-> ms[j].mentions] : j \in DOMAIN ms}
       IN  /\ Len(ms) = Min2(10, Cardinality(Unmatched))
           /\ Cardinality(listed) = Len(ms)
           /\ listed \subseteq Unmatched
           /\ \A j \in DOMAIN ms : j > 1 => ms[j - 1].mentions >= ms[j].mentions
           /\ \A u \in Unmatched \ listed : \A l \in listed : u.mentions <= l.mentions

\* more than ten unmatched skills, whose text order is not the order of
\* their mention counts, and one left out has fewer mentions than all listed
C11_Witness ==
    /\ mResult # NotRun
    /\ Cardinality(Unmatched) > 10
    /\ Len(mResult.missingSkills) = 10
    /\ mResult.missingSkills[1].mentions > mResult.missingSkills[10].mentions
    /\ extractJDSkills(mInput.jd)[1].mentions < mResult.missingSkills[1].mentions
    /\ \E u \in Unmatched : u.mentions < mResult.missingSkills[10].mentions

\* the skill is named in the capture of a requirement pattern, that is
\* between an introducer and the next full stop
InRequirementSentence(text, skill) == Boosts(text, skill) > 0

\* C12: the mention count of a job skill is its number of occurrences, plus
\* 3 when it is named in a requirement sentence, the boost applied once
C12_BoostAtMostOnce ==
    mResult # NotRun =>
       \A j \in DOMAIN mResult.missingSkills :
          LET m == mResult.missingSkills[j]
          IN  m.mentions = Occurrences(mInput.jd, m.skill.of, 1)
                           + (IF InRequirementSentence(mInput.jd, m.skill.of) THEN 3 ELSE 0)

\* the band of a score under the boundaries 80, 60 and 40
Band(score) == IF score >= 80 THEN 4 ELSE IF score >= 60 THEN 3 ELSE IF score >= 40 THEN 2 ELSE 1

\* C13: the summary is decided by the band of overallScore alone, and the
\* colours of the score card change at the same three boundaries
C13_SummaryBands ==
    mResult # NotRun =>
       LET score == mResult.overallScore
       IN  /\ mResult.summary = <<"Lower match", "Moderate match", "Good match",
                                  "Excellent match">>[Band(score)]
           /\ getScoreColor(score) = <<"text-red-600", "text-yellow-600", "text-blue-600",
                                       "text-green-600">>[Band(score)]
           /\ getScoreBackground(score) = <<"bg-red-100", "bg-yellow-100", "bg-blue-100",
                                            "bg-green-100">>[Band(score)]
           /\ progressBarColor(score) = <<"bg-red-500", "bg-yellow-500", "bg-blue-500",
                                          "bg-green-500">>[Band(score)]

\* a score on a boundary: exactly 60 is a good match
C13_Witness ==
    /\ mResult # NotRun
    /\ mResult.overallScore = 60
    /\ mResult.summary = "Good match"
    /\ getScoreColor(mResult.overallScore) = "text-blue-600"


\* the elements a finished FILL_FORM call of handler h wrote
WrittenBy(h) == {j \in DOMAIN fillLog : fillLog[j].h = h /\ fillLog[j].wrote}

\* C14: the count fillForm returns is the number of elements it wrote; an
\* element skipped for holding a non-blank value is not counted
C14_CountIsElementsWritten ==
    \A h \in Handlers :
       (/\ variant = "v3"
        /\ handlers[h].pc = "done"
        /\ handlers[h].msg.type = "FILL_FORM"
        /\ handlers[h].resp[1].success)
       => handlers[h].resp[1].data.filledCount = Cardinality(WrittenBy(h))

\* plain text with normalised white space: no markup, no white space at
\* either end, no two white-space characters in a row
PlainNormalised(text) ==
    /\ \A i \in DOMAIN text : text[i].k \notin {"t", "x"}
    /\ \A i \in DOMAIN text : IsSpace(text[i]) => text[i].n = 1
    /\ \A i \in DOMAIN text : i > 1 => ~(IsSpace(text[i - 1]) /\ IsSpace(text[i]))
    /\ Trimmed(text)

\* C18: the description every detection path returns is plain text with
\* normalised white space: the DETECT_JD answer under each method and the
\* result of the exported structured-data extractor
C18_DescriptionIsCleanText ==
    /\ \A h \in Handlers : DetectAnswered(h) => PlainNormalised(handlers[h].resp[1].data.jd)
    /\ schemaOut # NotRun => PlainNormalised(schemaOut.description)

\* the title and the company the heuristics of a method find before the
\* page title is consulted
HeuristicTitle(method) ==
    IF method = "meta_tags"
    THEN OrStr(detectFromMetaTags(metaTags).title, detectJobTitle(titleHits))
    ELSE detectJobTitle(titleHits)

\* C20: under meta_tags and under css_selectors a title or company the
\* heuristics leave blank is taken from a page title of the form
\* TITLE at COMPANY
C20_BlankFieldsFromPageTitle ==
    \A h \in Handlers : DetectAnswered(h) =>
        LET r == handlers[h].resp[1].data
        IN  (r.method \in {"meta_tags", "css_selectors"} /\ pageTitle.matches) =>
               /\ HeuristicTitle(r.method) = "" => r.jobTitle = pageTitle.title
               /\ detectCompany(companyHits) = "" => r.company = pageTitle.company


\* C19: a match result that is shown is calculateMatch of the master resume
\* and the job description the panel holds now
C19_MatchIsOfCurrentInputs ==
    (panel # NotRun /\ panel.matchResult # Absent) =>
        /\ panel.masterResume # Absent
        /\ panel.matchResult = MatchOf(panel.masterResume, panel.jobDescription)

\* the descriptions of the three meta sources in the order OpenGraph,
\* Twitter Card, standard description, and the first one long enough
MetaSources == <<metaTags.og, metaTags.twitter, metaTags.std>>
LongMetaSources == {i \in 1..3 : Length(MetaSources[i]) > AcceptLen}

\* C21: when structured data is not accepted and one of the three meta
\* sources holds more than 200 characters, the answer has method meta_tags
\* and the description of the first such source
C21_FirstLongMetaSourceAccepted ==
    \A h \in Handlers : (DetectAnswered(h) /\ ~SchemaAccepted /\ LongMetaSources # {}) =>
        /\ handlers[h].resp[1].data.method = "meta_tags"
        /\ handlers[h].resp[1].data.jd = MetaSources[MinOf(LongMetaSources)]

(***************************************************************************)
(* SpecPass1: the generation runs with more shapes of Pass 1 replies       *)
(***************************************************************************)
\* a fenced block that is no JSON followed by a JSON object; a JSON object
\* inside prose; a JSON object followed by prose with a closing brace
LoosePass1Replies(r) ==
    {Resolve(<<Piece("fence", 0), Piece("text", 0), Piece("fence", 0), Piece("json", r)>>),
     Resolve(<<Piece("text", 0), Piece("json", r), Piece("text", 0)>>),
     Resolve(<<Piece("json", r), Piece("text", 0), Piece("close", 0)>>)}

NextPass1 ==
    \/ ClickGenerate
    \/ ClickApply
    \/ \E r \in DOMAIN runs, rejects \in BOOLEAN :
          ProviderConfigReply(r, rejects) \/ ConfigReply(r, rejects)
    \/ \E r \in DOMAIN runs :
          \E reply \in RepliesFor(r) \cup (IF runs[r].pc = "pass1" THEN LoosePass1Replies(r) ELSE {}) :
             LLMReply(r, reply)

SpecPass1 == InitRuns /\ [][NextPass1]_vars

\* the JSON values held by a reply
JsonPieces(content) == {i \in DOMAIN content : content[i].k = "json"}

\* C22: a Pass 1 reply that is not JSON as a whole but holds a valid JSON
\* object is parsed, and Pass 2 is requested with that value; a reply that
\* holds none fails the run without a Pass 2 request
C22_BraceObjectParsed ==
    \A i \in DOMAIN llmLog :
       (llmLog[i].pass = "analyzeJD" /\ llmLog[i].state = "returned") =>
          LET content == llmLog[i].reply.content
              pass2   == {j \in DOMAIN llmLog : /\ llmLog[j].run = llmLog[i].run
                                                /\ llmLog[j].pass = "rewriteResume"}
          IN  IF JsonPieces(content) # {}
              THEN \E j \in pass2 : \E k \in JsonPieces(content) :
                      llmLog[j].arg = [analysis |-> content[k].id]
              ELSE pass2 = {}

\* the page text after white space is collapsed, and its first maxChars
\* characters
CleanedPage == Trim(CollapseSpaces(xPage.text))
WithinBudget == Slice(CleanedPage, xPage.maxChars)

\* C23: a page text longer than the budget is cut right after the last full
\* stop within the first maxChars characters (the cleaned text holds no
\* newline); only without one is it cut near the budget edge
C23_CutAtLastSentenceEnd ==
    (xContent # NotRun /\ Length(CleanedPage) > xPage.maxChars) =>
        IF LastIndexOf(WithinBudget, "p") >= 0
        THEN xContent.text = Slice(CleanedPage, LastIndexOf(WithinBudget, "p") + 1) \o Ellipsis
        ELSE Length(xContent.text) <= xPage.maxChars

\* the mention count extractJDSkills gives a skill of the job text
MentionsOf(skill) ==
    LET entries == extractJDSkills(mInput.jd)
    IN  entries[CHOOSE j \in DOMAIN entries : entries[j].skill = skill].mentions

\* C24: confidence is high, medium or low and priority is required,
\* preferred or nice_to_have as the mention count is at least 3, exactly 2
\* or at most 1; a missing skill with the requirement boost is required
C24_LabelsFollowMentions ==
    mResult # NotRun =>
       /\ \A j \in DOMAIN mResult.matchedSkills :
             LET m == mResult.matchedSkills[j]
                 n == MentionsOf(m.skill.of)
             IN  /\ m.confidence = "high" <=> n >= 3
                 /\ m.confidence = "medium" <=> n = 2
                 /\ m.confidence = "low" <=> n <= 1
       /\ \A j \in DOMAIN mResult.missingSkills :
             LET g == mResult.missingSkills[j]
                 n == MentionsOf(g.skill.of)
             IN  /\ g.mentions = n
                 /\ g.priority = "required" <=> n >= 3
                 /\ g.priority = "preferred" <=> n = 2
                 /\ g.priority = "nice_to_have" <=> n <= 1
                 /\ InRequirementSentence(mInput.jd, g.skill.of) => g.priority = "required"

\* a missing skill named once that is required through the boost alone,
\* beside a missing skill that is nice to have
C24_Witness ==
    /\ mResult # NotRun
    /\ \E j \in DOMAIN mResult.missingSkills :
          LET g == mResult.missingSkills[j]
          IN  /\ Occurrences(mInput.jd, g.skill.of, 1) = 1
              /\ InRequirementSentence(mInput.jd, g.skill.of)
              /\ g.priority = "required"
    /\ \E j \in DOMAIN mResult.missingSkills : mResult.missingSkills[j].priority = "nice_to_have"

\* a matched skill of each confidence is reached
C24_WitnessMatched ==
    /\ mResult # NotRun
    /\ \E j \in DOMAIN mResult.matchedSkills : mResult.matchedSkills[j].confidence = "medium"
    /\ \E j \in DOMAIN mResult.matchedSkills : mResult.matchedSkills[j].confidence = "high"

\* the fillField invocations of handler h on element e
CallsOn(h, e) == {j \in DOMAIN fillLog : fillLog[j].h = h /\ fillLog[j].el = e}

\* the keys with a supplied value whose patterns occur in the identifier or
\* the label of element e, in table order
MatchingKeys(e, data) ==
    SelectSeq(FieldKeys, LAMBDA k : /\ k \in elements[e].identKeys \cup elements[e].labelKeys
                                     /\ data[k] # <<>>)

\* C25: in one fillForm call fillField is invoked at most once per element,
\* for the first matching key in table order, and never on an element of
\* type hidden, submit, file, checkbox or radio; a finished call has handled
\* every other element that has a matching key
C25_OneKeyPerElement ==
    \A h \in Handlers : \A e \in DOMAIN elements :
       (variant = "v3" /\ handlers[h].msg.type = "FILL_FORM" /\ handlers[h].msg.data # NoData) =>
          LET keys == MatchingKeys(e, handlers[h].msg.data)
              exempt == elements[e].type \in {"hidden", "submit", "file", "checkbox", "radio"}
          IN  /\ Cardinality(CallsOn(h, e)) <= 1
              /\ \A j \in CallsOn(h, e) : ~exempt /\ keys # <<>> /\ fillLog[j].key = keys[1]
              /\ (handlers[h].pc = "done" /\ ~exempt /\ keys # <<>>) => CallsOn(h, e) # {}
              /\ \A j \in CallsOn(h, e) :
                    (/\ fillLog[j].wrote
                     /\ \A k \in DOMAIN fillLog :
                           (k > j /\ fillLog[k].el = e) => ~fillLog[k].wrote)
                       => elements[e].value = handlers[h].msg.data[keys[1]]

\* a finished call on a page with an element matching two supplied keys,
\* written with the first, and a hidden or radio element matching a key
C25_Witness ==
    /\ variant = "v3"
    /\ handlers["h1"].pc = "done"
    /\ handlers["h1"].msg.data # NoData
    /\ \E e \in DOMAIN elements :
          /\ Len(MatchingKeys(e, handlers["h1"].msg.data)) = 2
          /\ \E j \in CallsOn("h1", e) : fillLog[j].wrote /\ fillLog[j].key = "firstName"
    /\ \E e \in DOMAIN elements :
          /\ elements[e].type \in {"hidden", "radio"}
          /\ handlers["h1"].msg.data["email"] # <<>>
          /\ CallsOn("h1", e) = {}

DomEvents == {"input", "change", "keyup", "blur"}

\* the events among the steps of a fillField invocation, in order
EventsOf(steps) == SelectSeq(steps, LAMBDA x : x \in DomEvents)

\* the fillField invocations a step adds to the log
Added == {j \in DOMAIN fillLog' : j > Len(fillLog)}

\* C26: a fillField that writes sets the value before it dispatches input,
\* change, keyup and blur in this order, and a fillField that skips its
\* element dispatches nothing; after a write fillForm touches no further
\* element before the settle delay has elapsed
C26_SetThenEventsThenDelay ==
    /\ [](variant = "v3" =>
            \A j \in DOMAIN fillLog :
               IF fillLog[j].wrote
               THEN /\ EventsOf(fillLog[j].steps) = <<"input", "change", "keyup", "blur">>
                    /\ \E a, b \in DOMAIN fillLog[j].steps :
                          /\ fillLog[j].steps[a] = "set"
                          /\ fillLog[j].steps[b] = "input"
                          /\ a < b
               ELSE EventsOf(fillLog[j].steps) = <<>>)
    /\ [][variant = "v3" =>
            \A j \in Added :
               fillLog'[j].wrote =>
                  /\ j = Len(fillLog')
                  /\ handlers'[fillLog'[j].h].pc = "delay"]_vars

\* a finished call that wrote two elements, a settle delay after each, and
\* skipped none; another that skipped an element
C26_Witness ==
    /\ variant = "v3"
    /\ handlers["h1"].pc = "done"
    /\ Cardinality(WrittenBy("h1")) = 2
    /\ \E j \in DOMAIN fillLog : ~fillLog[j].wrote

\* the recognised job skills, and the weights of all of them and of those
\* the resume has
JobSkills == Range(extractJDSkills(mInput.jd))
TotalWeight == JobWeight(mInput.resume, mInput.jd, FALSE)
MatchedWeight == JobWeight(mInput.resume, mInput.jd, TRUE)

\* every job skill is listed once, as matched or as missing
ClassifiedOnce ==
    /\ Len(mResult.matchedSkills) + Cardinality(Unmatched) = Cardinality(JobSkills)
    /\ {mResult.matchedSkills[j].skill.of : j \in DOMAIN mResult.matchedSkills}
          = {e.skill : e \in JobSkills \ Unmatched}
    /\ Len(mResult.missingSkills) = Min2(10, Cardinality(Unmatched))
    /\ \A j \in DOMAIN mResult.missingSkills :
          \E e \in Unmatched : e.skill = mResult.missingSkills[j].skill.of
    /\ MatchedWeight <= TotalWeight

\* C27 as stated: every job skill is classified once, and the score is 100
\* exactly when there is a job skill and none is missing
C27_HundredIffNoneMissing ==
    mResult # NotRun =>
       /\ ClassifiedOnce
       /\ mResult.overallScore = 100 <=> (JobSkills # {} /\ Unmatched = {})

\* C27, amended: every job skill is classified once; the score is 100 when
\* there is a job skill and none is missing, and a score of 100 with a
\* missing skill means the matched weight is at least 99.5% of the total
C27_HundredWhenNoneMissing ==
    mResult # NotRun =>
       /\ ClassifiedOnce
       /\ (JobSkills # {} /\ Unmatched = {}) => mResult.overallScore = 100
       /\ mResult.overallScore = 100 =>
             /\ JobSkills # {}
             /\ 200 * MatchedWeight >= 199 * TotalWeight

\* forty matched skills of weight 5 and one missing skill of weight 1: the
\* score is rounded to 100
C27_Witness ==
    /\ mResult # NotRun
    /\ mResult.overallScore = 100
    /\ Unmatched # {}
    /\ Len(mResult.matchedSkills) >= 40

\* the fillField calls that wrote element e, of every FILL_FORM call
WritesTo(e) == {j \in DOMAIN fillLog : fillLog[j].el = e /\ fillLog[j].wrote}

\* C28 as stated: with two FILL_FORM calls in progress at once, every
\* element is written at most once in total
C28_WrittenOnceInTotal ==
    variant = "v3" => \A e \in DOMAIN elements : Cardinality(WritesTo(e)) <= 1

(***************************************************************************)
(* SpecCompanies: the target-company list in chrome.storage.local, the    *)
(* storage functions and CompanyManager's handlers.  A company is its id   *)
(* and whether lastChecked is set; a task is one call in progress, waiting *)
(* for tabs.create ("tab"), storage.get ("get") or storage.set ("set").    *)
(* The storage area serves the calls in the order they were made.          *)
(***************************************************************************)
MaxCompanies == 2

Company(id, checked) == [id |-> id, lastChecked |-> checked]
IdsOf(companies) == {companies[j].id : j \in DOMAIN companies}

\* companies.filter((c) => c.id !== id)
WithoutCompany(companies, id) == SelectSeq(companies, LAMBDA c : c.id # id)

\* companies.map((c) => c.id === id ? { ...c, lastChecked: new Date() } : c)
WithLastChecked(companies, id) ==
    [j \in DOMAIN companies |->
        IF companies[j].id = id THEN Company(id, TRUE) ELSE companies[j]]

\* prev.map((c) => ({ ...c, lastChecked: new Date() }))
AllChecked(companies) == [j \in DOMAIN companies |-> Company(companies[j].id, TRUE)]

\* Date.now().toString() of a later moment: an id no company has had
FreshId == MaxCompanies + 1

InitCompanies ==
    /\ BlankPage /\ NoForm /\ ContentIdle /\ BackgroundIdle /\ PanelIdle
    /\ mInput = NotRun /\ mResult = NotRun /\ ExtractorIdle
    /\ \E n \in 1..MaxCompanies : companyStorage = [j \in 1..n |-> Company(j, FALSE)]
    /\ targetCompanies = companyStorage      \* useEffect: loadTargetCompanies().then(...)
    /\ companyTasks = [t \in Tasks |-> IdleTask]
    /\ storageQueue = <<>>
    /\ removedIds = {}

Others == <<pageVars, formVars, csVars, bgVars, panelVars, matchVars, extractVars>>

\* removeTargetCompany(id) and addTargetCompany(company): loadTargetCompanies()
CallStorage(t) ==
    /\ companyTasks[t].pc = "idle"
    /\ \/ \E id \in 1..MaxCompanies :
             companyTasks' = [companyTasks EXCEPT ![t] =
                 [IdleTask EXCEPT !.op = "removeTargetCompany", !.pc = "get", !.id = id]]
       \/ /\ \A u \in Tasks : companyTasks[u].op # "addTargetCompany"
          /\ companyTasks' = [companyTasks EXCEPT ![t] =
                 [IdleTask EXCEPT !.op = "addTargetCompany", !.pc = "get", !.id = FreshId]]
    /\ storageQueue' = Append(storageQueue, t)
    /\ UNCHANGED <<companyStorage, targetCompanies, removedIds, Others>>

\* handleRemove: filter the state, setTargetCompanies, saveTargetCompanies
handleRemove(t) ==
    /\ companyTasks[t].pc = "idle"
    /\ \E id \in IdsOf(targetCompanies) :
          LET updated == WithoutCompany(targetCompanies, id)
          IN  /\ targetCompanies' = updated
              /\ companyTasks' = [companyTasks EXCEPT ![t] =
                     [IdleTask EXCEPT !.op = "handleRemove", !.pc = "set", !.id = id,
                                      !.pending = updated]]
    /\ storageQueue' = Append(storageQueue, t)
    /\ UNCHANGED <<companyStorage, removedIds, Others>>

\* handleOpenCareer(company): chrome.tabs.create
handleOpenCareer(t) ==
    /\ companyTasks[t].pc = "idle"
    /\ \E id \in IdsOf(targetCompanies) :
          companyTasks' = [companyTasks EXCEPT ![t] =
              [IdleTask EXCEPT !.op = "handleOpenCareer", !.pc = "tab", !.id = id]]
    /\ UNCHANGED <<companyStorage, targetCompanies, storageQueue, removedIds, Others>>

\* handleOpenAll: the loop runs over the targetCompanies of the click
handleOpenAll(t) ==
    /\ companyTasks[t].pc = "idle"
    /\ IF targetCompanies = <<>>
       THEN /\ companyTasks' = [companyTasks EXCEPT ![t] =
                   [IdleTask EXCEPT !.op = "handleOpenAll", !.pc = "done"]]
            /\ UNCHANGED targetCompanies
       ELSE /\ companyTasks' = [companyTasks EXCEPT ![t] =
                   [IdleTask EXCEPT !.op = "handleOpenAll", !.pc = "tab",
                                    !.id = targetCompanies[1].id,
                                    !.rest = [j \in 1..(Len(targetCompanies) - 1) |->
                                                 targetCompanies[j + 1].id]]]
            /\ UNCHANGED targetCompanies
    /\ UNCHANGED <<companyStorage, storageQueue, removedIds, Others>>

\* tabs.create settles: updateCompanyLastChecked calls loadTargetCompanies
TabCreated(t) ==
    /\ companyTasks[t].pc = "tab"
    /\ companyTasks' = [companyTasks EXCEPT ![t].pc = "get"]
    /\ storageQueue' = Append(storageQueue, t)
    /\ UNCHANGED <<companyStorage, targetCompanies, removedIds, Others>>

\* storage.get settles: the caller computes its list and calls
\* saveTargetCompanies with it
StorageGet(t) ==
    /\ companyTasks[t].pc = "get"
    /\ storageQueue # <<>> /\ Head(storageQueue) = t
    /\ storageQueue' = Append(Tail(storageQueue), t)
    /\ LET task == companyTasks[t]
           updated == CASE task.op = "removeTargetCompany" ->
                              WithoutCompany(companyStorage, task.id)
                        [] task.op = "addTargetCompany" ->
                              Append(companyStorage, Company(task.id, FALSE))
                        [] OTHER -> WithLastChecked(companyStorage, task.id)
       IN  companyTasks' = [companyTasks EXCEPT ![t].pc = "set", ![t].pending = updated]
    /\ UNCHANGED <<companyStorage, targetCompanies, removedIds, Others>>

\* storage.set settles, and the caller runs on to its next await or its end
StorageSet(t) ==
    /\ companyTasks[t].pc = "set"
    /\ storageQueue # <<>> /\ Head(storageQueue) = t
    /\ storageQueue' = Tail(storageQueue)
    /\ LET task == companyTasks[t]
       IN  /\ companyStorage' = task.pending
           /\ removedIds' =
                 IF task.op \in {"removeTargetCompany", "handleRemove"}
                 THEN removedIds \cup {task.id}
                 ELSE IF task.op = "addTargetCompany" THEN removedIds \ {task.id}
                 ELSE removedIds
           /\ IF task.op = "handleOpenCareer"
              THEN /\ targetCompanies' = WithLastChecked(targetCompanies, task.id)
                   /\ companyTasks' = [companyTasks EXCEPT ![t].pc = "done"]
              ELSE IF task.op = "handleOpenAll" /\ task.rest # <<>>
              THEN /\ companyTasks' = [companyTasks EXCEPT ![t].pc = "tab",
                                          ![t].id = Head(task.rest),
                                          ![t].rest = Tail(task.rest)]
                   /\ UNCHANGED targetCompanies
              ELSE IF task.op = "handleOpenAll"
              THEN /\ targetCompanies' = AllChecked(targetCompanies)
                   /\ companyTasks' = [companyTasks EXCEPT ![t].pc = "done"]
              ELSE /\ companyTasks' = [companyTasks EXCEPT ![t].pc = "done"]
                   /\ UNCHANGED targetCompanies
    /\ UNCHANGED Others

NextCompanies ==
    \E t \in Tasks :
       \/ CallStorage(t) \/ handleRemove(t) \/ handleOpenCareer(t) \/ handleOpenAll(t)
       \/ TabCreated(t) \/ StorageGet(t) \/ StorageSet(t)

SpecCompanies == InitCompanies /\ [][NextCompanies]_vars

\* C29 as stated, for CompanyManager's handlers alone: a company that a
\* completed handleRemove took out of storage is not in storage afterwards,
\* whatever handleOpenCareer and handleOpenAll calls are under way (no
\* company is added)
C29_RemovedStaysRemoved ==
    (\A t \in Tasks : companyTasks[t].op \notin {"removeTargetCompany", "addTargetCompany"})
       => \A id \in removedIds : id \notin IdsOf(companyStorage)

\* the case the claim names: updateCompanyLastChecked read the list before
\* the removal and has saved its list after it
C29_StaleUpdateWroteBack ==
    \E t \in Tasks : \E id \in removedIds :
       /\ companyTasks[t].op = "handleOpenCareer" /\ companyTasks[t].pc = "done"
       /\ id \in IdsOf(companyStorage)

(***************************************************************************)
(* SpecLive: generation and detection runs of the side panel whose awaited *)
(* calls all settle.  The three boxes are filled in, with the job text of  *)
(* the page; the page either has a job description or has none.            *)
(***************************************************************************)
InitLive ==
    /\ scripts = <<>>
    /\ metaTags = NoMeta
    /\ selectorHits \in {<<>>, <<Words(300)>>}
    /\ paragraphs = <<>>
    /\ titleHits = <<TitleEl>>
    /\ companyHits = <<>>
    /\ pageTitle = PageTitle
    /\ NoForm /\ ContentIdle
    /\ storage \in {GoodConfig, [GoodConfig EXCEPT !.hasKey = FALSE],
                    [GoodConfig EXCEPT !.hasResume = FALSE]}
    /\ bgHandled = <<>>
    /\ panel = [FreshPanel EXCEPT !.jobDescription = Words(300), !.jobTitle = "Engineer",
                                  !.company = "Acme"]
    /\ runs = <<>>
    /\ llmLog = <<>>
    /\ MatcherIdle

\* what the provider may answer: a rejection, a JSON object or plain text
\* to Pass 1, a rejection or text to the other two
LiveReplies(r) ==
    IF runs[r].pc = "pass1"
    THEN {Rejects, Resolve(<<Piece("json", r)>>), Resolve(<<Piece("text", 0)>>)}
    ELSE RepliesFor(r)

\* the call run r awaits settles
RunSettles(r) ==
    /\ r \in DOMAIN runs
    /\ \/ \E rejects \in BOOLEAN : ProviderConfigReply(r, rejects) \/ ConfigReply(r, rejects)
       \/ \E reply \in LiveReplies(r) : LLMReply(r, reply)

\* the call detectFromPage awaits settles
DetectSettles ==
    \/ \E rejects \in BOOLEAN : DetectPageReply(rejects) \/ DetectConfigReply(rejects)
    \/ DetectNoTab

NextLive ==
    \/ ClickGenerate
    \/ ClickApply
    \/ \E r \in 1..MaxRuns : RunSettles(r)
    \/ DetectStart
    \/ DetectSettles

SpecLive ==
    /\ InitLive /\ [][NextLive]_vars
    /\ \A r \in 1..MaxRuns : WF_vars(RunSettles(r))
    /\ WF_vars(DetectSettles)

Ended == {"done", "failed"}

\* C30: every detectFromPage run comes to set isDetecting false and every
\* handleGenerate run that passed validation comes to its end; the step
\* that ends a generation run sets isLoading false and, on failure, an
\* error message; the step that ends a detection run leaves detectionStatus
\* "success", or "error" with an error message
C30_RunsEndAndReset ==
    /\ \A r \in 1..MaxRuns :
          (r \in DOMAIN runs) ~> (r \in DOMAIN runs /\ runs[r].pc \in Ended)
    /\ panel.isDetecting ~> ~panel.isDetecting
    /\ [][/\ \A r \in DOMAIN runs :
                (runs[r].pc \notin Ended /\ runs'[r].pc \in Ended) =>
                    /\ ~panel'.isLoading
                    /\ runs'[r].pc = "failed" => panel'.error # Absent
          /\ (panel.isDetecting /\ ~panel'.isDetecting) =>
                \/ panel'.detectionStatus = "success" /\ panel'.jobDescription # <<>>
                \/ panel'.detectionStatus = "error" /\ panel'.error # Absent]_vars

\* a generation run has failed and another has succeeded, and a detection
\* run has ended in an error
C30_Witness ==
    /\ \E r \in DOMAIN runs : runs[r].pc = "failed"
    /\ \E r \in DOMAIN runs : runs[r].pc = "done"
    /\ ~panel.isLoading
    /\ ~panel.isDetecting /\ panel.detectionStatus = "error"

=============================================================================
